---- MODULE Spec2Model ----
(***************************************************************************)
(* Spaced-repetition card store (src/src/spaced-core.ts) over the D1       *)
(* schema (cards, cards_fts, tags, reviews, review_history).               *)
(*                                                                         *)
(* The database is one record `db`; every SQL statement of the class is an *)
(* operator from a database to a database and every method a function of  *)
(* the database it finds.                                                  *)
(*   Spec      two tenants calling the methods one call at a time          *)
(*   CallSpec  the same calls together with what each caller saw           *)
(*   CardSpec  the reviews and undos of one card as the clock advances     *)
(*   ConcSpec  submitReview run statement by statement by two sessions     *)
(*   DueSpec   one tenant's cards, their reviews and the clock             *)
(*   TagSpec   two tenants tag, retag and review their cards               *)
(*   BatchSpec the batch calls of one tenant                               *)
(*   StreakSpec two tenants review and undo over several days              *)
(*   EntrySpec the review_card tool and POST /api/review of one tenant     *)
(*   ApiSpec   the three REST routes called with any Authorization header  *)
(*   LedgerSpec two tenants add, review, undo, edit and delete             *)
(*   UndoSpec  undoReview run statement by statement by two sessions       *)
(*   RaceSpec  submitReview statement by statement beside delete and undo  *)
(*   StatsSpec getStats reading its two streaks while reviews go on        *)
(*                                                                         *)
(* Time is counted in half seconds: JavaScript Date values keep the full   *)
(* resolution, SQLite's CURRENT_TIMESTAMP / datetime() keep whole seconds. *)
(***************************************************************************)
EXTENDS Integers, Sequences, FiniteSets, TLC

VARIABLES
    db,        \* the D1 database: tables and AUTOINCREMENT counters
    now,       \* the wall clock, in half seconds
    made,      \* observation: per card id, who created it and what its deletion erased
    last,      \* observation: the most recent completed call and its result
    trail,     \* observation: per card, the schedule states its reviews produced
    phase,     \* observation: per card, shape of its review/undo call sequence
    pc,        \* ConcSpec: per session, the next statement of its running call
    local,     \* ConcSpec: per session, the local variables of its running call
    fin,       \* ConcSpec: per session, the ratings of the reviews it completed
    pendingSnap, \* ConcSpec: snapshot ids inserted by a review whose UPDATE has not run
    batch,     \* observation: the most recent batch call, its input and its result
    reading    \* StatsSpec: what the queries of a running getStats have returned

vars == <<db, now, made, last, trail, phase, pc, local, fin, pendingSnap, batch, reading>>

-----------------------------------------------------------------------------
(* Bounds *)

MaxCards == 2        \* Spec: card ids handed out
MaxHist == 1         \* Spec: review_history ids handed out
MaxCallCards == 1    \* CallSpec: card ids handed out
MaxCallHist == 1     \* CallSpec: review_history ids handed out
MaxReviews == 3      \* CardSpec: review_history ids handed out
MaxTicks == 2        \* CardSpec: clock advances
MaxConcReviews == 2  \* ConcSpec: reviews started
MaxDueCards == 2     \* DueSpec: card ids handed out
MaxDueReviews == 1   \* DueSpec: review_history ids handed out
MaxTagCards == 2     \* TagSpec: card ids handed out
MaxTagReviews == 1   \* TagSpec: review_history ids handed out
MaxBatchCards == 1   \* BatchSpec: card ids handed out
MaxBatch == 2        \* BatchSpec: items of one batch call
MaxBatchHist == 2    \* BatchSpec: review_history ids handed out
MaxStreakDays == 4   \* StreakSpec: days the clock advances
MaxStreakReviews == 3 \* StreakSpec: review_history ids handed out
MaxEntryCards == 1 \* EntrySpec: cards ever created
MaxEntryHist == 2 \* EntrySpec: review_history ids handed out
MaxApiCards == 2 \* ApiSpec: cards ever created
MaxApiHist == 2 \* ApiSpec: review_history ids handed out
MaxStatsReviews == 3 \* StatsSpec: review_history ids handed out
MaxUndoReviews == 2 \* UndoSpec: review_history ids handed out
MaxUndoCalls == 3 \* UndoSpec: undoReview calls that found a snapshot
MaxLedgerCards == 2 \* LedgerSpec: cards ever created
MaxLedgerHist == 2 \* LedgerSpec: review_history ids handed out

Users == {"alice", "bob"}
TagArgs == {<<"a">>, <<"a", " a">>}
Grades == 1..4     \* Rating.Again, Hard, Good, Easy

Day == 172800      \* half seconds per day
Minute == 120

SecondOf(t) == t \div 2
DayOf(t) == t \div Day
\* the clock is read at 0, 1 (the same second), Day, Day + 1, 2 * Day, ...
TicksUsed(t) == 2 * (t \div Day) + (t % Day)

NULL == -1

Max(a, b) == IF a >= b THEN a ELSE b
Min(a, b) == IF a <= b THEN a ELSE b

Range(list) == {list[i] : i \in DOMAIN list}

-----------------------------------------------------------------------------
(* ts-fsrs: State, createEmptyCard, fsrs().next with the default parameters *)
(* (learning steps 1m and 10m, relearning step 10m, no fuzz).  Stability    *)
(* and difficulty are kept in whole units.                                  *)

New == 0
Learning == 1
Review == 2
Relearning == 3

\* an empty card that is due a day after its creation
createEmptyCardDueNextDay(t) ==
    [state |-> New, due |-> t + Day, stability |-> 0, difficulty |-> 0,
     elapsed_days |-> 0, scheduled_days |-> 0, learning_steps |-> 0,
     reps |-> 0, lapses |-> 0, last_review |-> NULL]

createEmptyCard(t) ==
    [state |-> New, due |-> t, stability |-> 0, difficulty |-> 0,
     elapsed_days |-> 0, scheduled_days |-> 0, learning_steps |-> 0,
     reps |-> 0, lapses |-> 0, last_review |-> NULL]

init_stability(g) == <<0, 1, 2, 8>>[g]
init_difficulty(g) == <<6, 5, 2, 1>>[g]
next_difficulty(d, g) == Min(10, Max(1, d + (3 - g)))
next_short_term_stability(s, g) == IF g = 1 THEN s \div 2 ELSE IF g = 4 THEN s + 1 ELSE s
next_recall_stability(s, g) == IF g = 2 THEN s + 1 ELSE IF g = 3 THEN 2 * s + 1 ELSE 3 * s + 2
next_forget_stability(s) == s \div 4
next_interval(s) == Min(36500, Max(1, s))

\* BasicLearningStepsStrategy: minutes until the next step and the step index,
\* 0 minutes when the card leaves the (re)learning steps.
StepMinutes(state, step, g) ==
    LET relearn == state \in {Relearning, Review}
        nsteps == IF relearn THEN 1 ELSE 2
    IN  IF step >= nsteps THEN [minutes |-> 0, next_step |-> 0]
        ELSE IF state = Review THEN [minutes |-> 10, next_step |-> 0]
        ELSE IF g = 1 THEN [minutes |-> IF relearn THEN 10 ELSE 1, next_step |-> 0]
        ELSE IF g = 2 THEN [minutes |-> IF relearn THEN 15 ELSE 6, next_step |-> step]
        ELSE IF g = 3 /\ step + 1 < nsteps THEN [minutes |-> 10, next_step |-> step + 1]
        ELSE [minutes |-> 0, next_step |-> 0]

applyLearningSteps(card, prior, g, to_state, t) ==
    LET info == StepMinutes(prior.state, prior.learning_steps, g)
    IN  IF info.minutes > 0
        THEN [card EXCEPT !.learning_steps = info.next_step, !.scheduled_days = 0,
                          !.state = to_state, !.due = t + info.minutes * Minute]
        ELSE LET interval == next_interval(card.stability)
             IN  [card EXCEPT !.state = Review, !.learning_steps = 0,
                              !.scheduled_days = interval, !.due = t + interval * Day]

SchedulerNext(card, t, g) ==
    LET elapsed == IF card.state # New /\ card.last_review # NULL
                   THEN DayOf(t) - DayOf(card.last_review) ELSE 0
        cur == [card EXCEPT !.last_review = t, !.elapsed_days = elapsed, !.reps = @ + 1]
    IN  IF card.state = New
        THEN applyLearningSteps(
                 [cur EXCEPT !.difficulty = init_difficulty(g),
                             !.stability = init_stability(g)], card, g, Learning, t)
        ELSE IF card.state \in {Learning, Relearning}
        THEN applyLearningSteps(
                 [cur EXCEPT !.difficulty = next_difficulty(card.difficulty, g),
                             !.stability = next_short_term_stability(card.stability, g)],
                 card, g, card.state, t)
        ELSE IF g = 1
        THEN [applyLearningSteps(
                 [cur EXCEPT !.difficulty = next_difficulty(card.difficulty, g),
                             !.stability = next_forget_stability(card.stability)],
                 card, g, Relearning, t) EXCEPT !.lapses = @ + 1]
        ELSE LET hard == next_interval(next_recall_stability(card.stability, 2))
                 good0 == next_interval(next_recall_stability(card.stability, 3))
                 hardI == Min(hard, good0)
                 goodI == Max(good0, hardI + 1)
                 easyI == Max(next_interval(next_recall_stability(card.stability, 4)), goodI + 1)
                 interval == IF g = 2 THEN hardI ELSE IF g = 3 THEN goodI ELSE easyI
             IN  [cur EXCEPT !.difficulty = next_difficulty(card.difficulty, g),
                             !.stability = next_recall_stability(card.stability, g),
                             !.state = Review, !.learning_steps = 0,
                             !.scheduled_days = interval, !.due = t + interval * Day]

-----------------------------------------------------------------------------
(* SQL statements *)

\* tag.trim()
Trim(tag) == IF tag = " a" THEN "a" ELSE IF tag = " " THEN "" ELSE tag

CardExists(d, cardId) == \E c \in d.cards : c.id = cardId

\* INSERT INTO cards (user_id, instructions); trigger cards_ai fills cards_fts
InsertCard(d, userId, instructions, t) ==
    LET id == d.seq_cards + 1
    IN  [d EXCEPT !.seq_cards = id,
                  !.cards = @ \cup {[id |-> id, user_id |-> userId,
                                     instructions |-> instructions,
                                     created_at |-> SecondOf(t)]},
                  !.cards_fts = @ \cup {[rowid |-> id, instructions |-> instructions,
                                         user_id |-> userId]}]

\* tags.filter((tag) => tag.trim()).map(... INSERT INTO tags ... tag.trim())
TagInserts(cardId, userId, tags) ==
    LET kept == SelectSeq(tags, LAMBDA tag : Trim(tag) # "")
    IN  [i \in 1..Len(kept) |->
            [card_id |-> cardId, user_id |-> userId, tag |-> Trim(kept[i])]]

\* db.batch(tagInserts) is one transaction: PRIMARY KEY (card_id, tag) and the
\* foreign key to cards(id) reject the whole batch.
BatchAccepted(d, inserts) ==
    /\ \A i, j \in 1..Len(inserts) :
          i # j => <<inserts[i].card_id, inserts[i].tag>> # <<inserts[j].card_id, inserts[j].tag>>
    /\ \A i \in 1..Len(inserts) :
          /\ CardExists(d, inserts[i].card_id)
          /\ ~\E r \in d.tags : r.card_id = inserts[i].card_id /\ r.tag = inserts[i].tag

Batch(d, inserts) ==
    IF BatchAccepted(d, inserts)
    THEN [d EXCEPT !.tags = @ \cup {inserts[i] : i \in 1..Len(inserts)}]
    ELSE d

\* INSERT INTO reviews (card_id, user_id, state, due, ...)
InsertReviews(d, cardId, userId, card) ==
    [d EXCEPT !.reviews = @ \cup {[card_id |-> cardId, user_id |-> userId, fsrs |-> card]}]

\* the same SELECT without "AND user_id = ?"
SelectReviewAnyTenant(d, cardId, userId) ==
    {r \in d.reviews : r.card_id = cardId}

\* SELECT ... FROM reviews WHERE card_id = ? AND user_id = ?
SelectReview(d, cardId, userId) ==
    {r \in d.reviews : r.card_id = cardId /\ r.user_id = userId}

\* review_history.created_at is not bound by the INSERT: the column default,
\* CURRENT_TIMESTAMP as for cards.created_at, keeps whole seconds
HistoryCreatedAt(t) == SecondOf(t)

\* INSERT INTO review_history (...): id and created_at take their defaults
InsertHistory(d, cardId, userId, card, t) ==
    LET id == d.seq_history + 1
    IN  [d EXCEPT !.seq_history = id,
                  !.review_history = @ \cup {[id |-> id, card_id |-> cardId,
                                              user_id |-> userId, fsrs |-> card,
                                              created_at |-> HistoryCreatedAt(t)]}]

\* the same UPDATE without "lapses = ?"
UpdateReviewsKeepLapses(d, cardId, userId, card) ==
    [d EXCEPT !.reviews = {IF r.card_id = cardId /\ r.user_id = userId
                           THEN [r EXCEPT !.fsrs = [card EXCEPT !.lapses = r.fsrs.lapses]]
                           ELSE r : r \in @}]

\* the same UPDATE without "state = ?"
UpdateReviewsKeepState(d, cardId, userId, card) ==
    [d EXCEPT !.reviews = {IF r.card_id = cardId /\ r.user_id = userId
                           THEN [r EXCEPT !.fsrs = [card EXCEPT !.state = r.fsrs.state]]
                           ELSE r : r \in @}]

\* the same UPDATE with WHERE user_id = ? alone
UpdateReviewsOfUser(d, cardId, userId, card) ==
    [d EXCEPT !.reviews = {IF r.user_id = userId
                           THEN [r EXCEPT !.fsrs = card] ELSE r : r \in @}]

\* UPDATE reviews SET ... WHERE card_id = ? AND user_id = ?
UpdateReviews(d, cardId, userId, card) ==
    [d EXCEPT !.reviews = {IF r.card_id = cardId /\ r.user_id = userId
                           THEN [r EXCEPT !.fsrs = card] ELSE r : r \in @}]

\* SELECT ... FROM review_history WHERE card_id = ? AND user_id = ?
\* ORDER BY created_at DESC LIMIT 1: any row with the greatest created_at
SelectLastHistory(d, cardId, userId) ==
    LET rows == {h \in d.review_history : h.card_id = cardId /\ h.user_id = userId}
    IN  {h \in rows : \A g \in rows : g.created_at <= h.created_at}

\* DELETE FROM review_history WHERE id = ?
DeleteHistory(d, id) ==
    [d EXCEPT !.review_history = {h \in @ : h.id # id}]

\* review_history.card_id references cards(id) ON DELETE CASCADE
CascadeHistory(d, cardId) ==
    [d EXCEPT !.review_history = {h \in @ : h.card_id # cardId}]

\* the same DELETE over a tags table declared without ON DELETE CASCADE
DeleteCardsKeepTags(d, cardId, userId) ==
    LET gone == {c \in d.cards : c.id = cardId /\ c.user_id = userId}
    IN  IF gone = {} THEN d
        ELSE CascadeHistory(
                 [d EXCEPT !.cards = @ \ gone,
                           !.cards_fts = {f \in @ : f.rowid # cardId},
                           !.reviews = {r \in @ : r.card_id # cardId}], cardId)

\* DELETE FROM cards WHERE id = ? AND user_id = ?; tags and reviews cascade,
\* trigger cards_ad clears cards_fts
DeleteCards(d, cardId, userId) ==
    LET gone == {c \in d.cards : c.id = cardId /\ c.user_id = userId}
    IN  IF gone = {} THEN d
        ELSE CascadeHistory(
                 [d EXCEPT !.cards = @ \ gone,
                           !.cards_fts = {f \in @ : f.rowid # cardId},
                           !.tags = {r \in @ : r.card_id # cardId},
                           !.reviews = {r \in @ : r.card_id # cardId}], cardId)

\* SELECT id FROM cards WHERE id = ? AND user_id = ?
SelectCard(d, cardId, userId) ==
    {c \in d.cards : c.id = cardId /\ c.user_id = userId}

\* UPDATE cards SET instructions = ? WHERE id = ? AND user_id = ?; trigger cards_au
UpdateCards(d, cardId, userId, instructions) ==
    LET hit == SelectCard(d, cardId, userId) # {}
    IN  [d EXCEPT !.cards = {IF c.id = cardId /\ c.user_id = userId
                             THEN [c EXCEPT !.instructions = instructions] ELSE c : c \in @},
                  !.cards_fts = {IF hit /\ f.rowid = cardId
                                 THEN [f EXCEPT !.instructions = instructions] ELSE f : f \in @}]

\* DELETE FROM tags WHERE card_id = ? AND user_id = ?
DeleteTags(d, cardId, userId) ==
    [d EXCEPT !.tags = {r \in @ : ~(r.card_id = cardId /\ r.user_id = userId)}]

-----------------------------------------------------------------------------
(* Queries *)

\* the same filter requiring every listed tag
TagFilterAll(d, userId, tags, cardId) ==
    \A g \in tags : \E r \in d.tags : r.card_id = cardId /\ r.user_id = userId /\ r.tag = g

\* c.id IN (SELECT card_id FROM tags WHERE user_id = ? AND tag IN (...))
TagFilter(d, userId, tags, cardId) ==
    tags = {} \/ \E r \in d.tags : r.card_id = cardId /\ r.user_id = userId /\ r.tag \in tags

\* cards c JOIN reviews r ON c.id = r.card_id WHERE c.user_id = ?
getAllCards(d, userId, tags) ==
    {c.id : c \in {c \in d.cards :
                     /\ c.user_id = userId
                     /\ \E r \in d.reviews : r.card_id = c.id
                     /\ TagFilter(d, userId, tags, c.id)}}

\* cards_fts MATCH ?: the query term occurs in the indexed instructions
Match(instructions, query) == instructions = query

searchCards(d, userId, query, tags) ==
    IF query = "" THEN getAllCards(d, userId, tags)
    ELSE {c.id : c \in {c \in d.cards :
                     /\ \E f \in d.cards_fts : f.rowid = c.id /\ Match(f.instructions, query)
                     /\ c.user_id = userId
                     /\ \E r \in d.reviews : r.card_id = c.id
                     /\ TagFilter(d, userId, tags, c.id)}}

\* the same SELECT with datetime(r.due) < datetime('now')
DueRowsBeforeNow(d, userId, tags, t) ==
    {c.id : c \in {c \in d.cards :
                     /\ c.user_id = userId
                     /\ \E r \in d.reviews : r.card_id = c.id /\ SecondOf(r.fsrs.due) < SecondOf(t)
                     /\ TagFilter(d, userId, tags, c.id)}}

\* WHERE c.user_id = ? AND datetime(r.due) <= datetime('now')
DueRows(d, userId, tags, t) ==
    {c.id : c \in {c \in d.cards :
                     /\ c.user_id = userId
                     /\ \E r \in d.reviews : r.card_id = c.id /\ SecondOf(r.fsrs.due) <= SecondOf(t)
                     /\ TagFilter(d, userId, tags, c.id)}}

-----------------------------------------------------------------------------
(* getDueCards and getStats *)

\* ts-fsrs get_retrievability(card, now, false): 0 for a New card, else the
\* forgetting curve over the whole days since last_review, on a scale of 100
get_retrievability(card, t) ==
    IF card.state = New THEN 0
    ELSE LET elapsed == Max((t - card.last_review) \div Day, 0)
         IN  (100 * (card.stability + 1)) \div (card.stability + 1 + elapsed)

RetrievabilityOf(d, cardId, t) ==
    get_retrievability((CHOOSE r \in d.reviews : r.card_id = cardId).fsrs, t)

\* result.results of a SELECT ... GROUP BY c.id: one row per card, by id
RECURSIVE RowsById(_)
RowsById(ids) ==
    IF ids = {} THEN <<>>
    ELSE LET least == CHOOSE i \in ids : \A j \in ids : i <= j
         IN  <<least>> \o RowsById(ids \ {least})

\* cardsWithR.sort((a, b) => b.retrievability - a.retrievability): a stable
\* sort, the greater retrievability first
RECURSIVE SortByRetrievability(_, _, _)
SortByRetrievability(d, rows, t) ==
    IF rows = <<>> THEN <<>>
    ELSE LET n == Len(rows)
             sorted == SortByRetrievability(d, SubSeq(rows, 1, n - 1), t)
             x == rows[n]
             ahead == {i \in 1..(n - 1) :
                          RetrievabilityOf(d, sorted[i], t) >= RetrievabilityOf(d, x, t)}
             k == IF ahead = {} THEN 0 ELSE CHOOSE i \in ahead : \A j \in ahead : j <= i
         IN  SubSeq(sorted, 1, k) \o <<x>> \o SubSeq(sorted, k + 1, n - 1)

\* cards_fts MATCH ? raises "fts5: syntax error" on an apostrophe
Malformed(query) == query = "'"

\* searchCards as a call: the rows, or the error the statement raises
searchCardsCall(d, userId, query, tags) ==
    IF query # "" /\ Malformed(query)
    THEN [ok |-> FALSE, err |-> <<"fts5: syntax error">>, cards |-> {}]
    ELSE [ok |-> TRUE, err |-> <<>>, cards |-> searchCards(d, userId, query, tags)]

\* limit = NULL stands for an undefined limit
getDueCards(d, userId, limit, tags, t) ==
    LET cardsWithR == SortByRetrievability(d, RowsById(DueRows(d, userId, tags, t)), t)
    IN  IF limit # NULL /\ limit # 0
        THEN SubSeq(cardsWithR, 1, Min(limit, Len(cardsWithR)))
        ELSE cardsWithR

\* SELECT COUNT(*) FROM review_history WHERE user_id = ?
getTotalReviews(d, userId) ==
    Cardinality({h \in d.review_history : h.user_id = userId})

\* DATE(created_at): the calendar day (UTC) of a timestamp in whole seconds
DateOf(created_at) == (2 * created_at) \div Day

\* SELECT DISTINCT DATE(created_at) FROM review_history WHERE user_id = ?
ReviewDates(d, userId) ==
    {DateOf(h.created_at) : h \in {h \in d.review_history : h.user_id = userId}}

\* ORDER BY review_date DESC
RECURSIVE Descending(_)
Descending(dates) ==
    IF dates = {} THEN <<>>
    ELSE LET latest == CHOOSE x \in dates : \A y \in dates : y <= x
         IN  <<latest>> \o Descending(dates \ {latest})

\* ORDER BY review_date ASC
RECURSIVE Ascending(_)
Ascending(dates) ==
    IF dates = {} THEN <<>>
    ELSE LET earliest == CHOOSE x \in dates : \A y \in dates : x <= y
         IN  <<earliest>> \o Ascending(dates \ {earliest})

\* for (const dateStr of reviewDates): count while dateStr is the expected
\* date, the expected date moving one day back each time
RECURSIVE CountBack(_, _, _, _)
CountBack(reviewDates, i, expectedDate, streak) ==
    IF i > Len(reviewDates) THEN streak
    ELSE IF reviewDates[i] = expectedDate
         THEN CountBack(reviewDates, i + 1, expectedDate - 1, streak + 1)
         ELSE streak

\* the same method counting from today only
getCurrentStreakFromToday(d, userId, t) ==
    CountBack(Descending(ReviewDates(d, userId)), 1, DayOf(t), 0)

\* the same method without the "streak is broken" return
getCurrentStreakNeverBroken(d, userId, t) ==
    LET reviewDates == Descending(ReviewDates(d, userId))
    IN  IF reviewDates = <<>> THEN 0 ELSE CountBack(reviewDates, 1, reviewDates[1], 0)

\* the workers runtime keeps local time in UTC: today is the UTC day of now
getCurrentStreak(d, userId, t) ==
    LET reviewDates == Descending(ReviewDates(d, userId))
        today == DayOf(t)
        yesterday == today - 1
    IN  IF reviewDates = <<>> THEN 0
        ELSE IF reviewDates[1] # today /\ reviewDates[1] # yesterday THEN 0
        ELSE CountBack(reviewDates, 1,
                       IF reviewDates[1] = today THEN today ELSE yesterday, 0)

\* for (let i = 1; i < reviewDates.length; i++): diffDays === 1 extends the
\* run, anything else starts a new one
RECURSIVE LongestLoop(_, _, _, _)
LongestLoop(reviewDates, i, currentStreak, longestStreak) ==
    IF i > Len(reviewDates) THEN longestStreak
    ELSE IF reviewDates[i] - reviewDates[i - 1] = 1
         THEN LongestLoop(reviewDates, i + 1, currentStreak + 1,
                          Max(longestStreak, currentStreak + 1))
         ELSE LongestLoop(reviewDates, i + 1, 1, longestStreak)

\* the same method reporting the run that ends at the latest date
getLongestStreakLatestRun(d, userId) ==
    LET reviewDates == Descending(ReviewDates(d, userId))
    IN  IF reviewDates = <<>> THEN 0 ELSE CountBack(reviewDates, 1, reviewDates[1], 0)

getLongestStreak(d, userId) ==
    LET reviewDates == Ascending(ReviewDates(d, userId))
    IN  IF reviewDates = <<>> THEN 0 ELSE LongestLoop(reviewDates, 2, 1, 1)

\* FROM tags t JOIN cards c ON t.card_id = c.id JOIN reviews r ON c.id = r.card_id
\* WHERE t.user_id = ?
TagStatsRows(d, userId) ==
    {row \in {[tag |-> tr.tag, id |-> c.id, due |-> r.fsrs.due] :
                 tr \in {x \in d.tags : x.user_id = userId}, c \in d.cards, r \in d.reviews} :
        \E tr \in d.tags, r \in d.reviews :
            /\ tr.user_id = userId /\ tr.tag = row.tag /\ tr.card_id = row.id
            /\ r.card_id = row.id /\ r.fsrs.due = row.due
            /\ \E c \in d.cards : c.id = row.id}

\* GROUP BY t.tag: COUNT(DISTINCT c.id) and SUM(CASE WHEN datetime(r.due) <=
\* datetime('now') THEN 1 ELSE 0 END), as the byTag record
byTag(d, userId, t) ==
    LET rows == TagStatsRows(d, userId)
    IN  [tag \in {row.tag : row \in rows} |->
            [total |-> Cardinality({row.id : row \in {x \in rows : x.tag = tag}}),
             due |-> Cardinality({x \in {x \in rows : x.tag = tag} :
                                     SecondOf(x.due) <= SecondOf(t)})]]

\* due_today, total, current_streak, longest_streak, total_reviews and by_tag
\* of getStats; by_tag is {} when the field is not set
getStats(d, userId, tags, t) ==
    [due_today |-> Cardinality(DueRows(d, userId, tags, t)),
     total |-> Cardinality({c \in d.cards : c.user_id = userId
                                            /\ TagFilter(d, userId, tags, c.id)}),
     current_streak |-> getCurrentStreak(d, userId, t),
     longest_streak |-> getLongestStreak(d, userId),
     total_reviews |-> getTotalReviews(d, userId),
     by_tag |-> IF tags = {} THEN {byTag(d, userId, t)} ELSE {}]

-----------------------------------------------------------------------------
(* The methods of SpacedRepetition: database before -> database after and  *)
(* what the caller gets (ok = FALSE with err # <<>> is a thrown error)      *)

addCard(d, t, userId, instructions, tags) ==
    LET d1 == InsertCard(d, userId, instructions, t)
        cardId == d1.seq_cards
        tagInserts == TagInserts(cardId, userId, tags)
    IN  IF Len(tags) > 0 /\ ~BatchAccepted(d1, tagInserts)
        THEN [db |-> d1, ok |-> FALSE, err |-> <<"UNIQUE constraint failed">>, id |-> cardId]
        ELSE [db |-> InsertReviews(IF Len(tags) > 0 THEN Batch(d1, tagInserts) ELSE d1,
                                   cardId, userId, createEmptyCard(t)),
              ok |-> TRUE, err |-> <<>>, id |-> cardId]

\* (due - t) in days, rounded up
IntervalDaysUp(due, t) == ((due - t) + Day - 1) \div Day

\* Math.round((nextDate - now) / (1000 * 60 * 60 * 24))
IntervalDays(due, t) == (2 * (due - t) + Day) \div (2 * Day)

\* the same method with the "if (!review) throw" placed after the INSERT
submitReviewLateCheck(d, t, userId, cardId, rating) ==
    LET found == SelectReview(d, cardId, userId)
    IN  IF found = {}
        THEN [db |-> InsertHistory(d, cardId, userId, createEmptyCard(t), t),
              ok |-> FALSE, err |-> <<"Card", cardId, "not found">>, card_id |-> cardId,
              next_review |-> 0, interval |-> 0]
        ELSE LET review == CHOOSE r \in found : TRUE
                 d1 == InsertHistory(d, cardId, userId, review.fsrs, t)
                 updatedCard == SchedulerNext(review.fsrs, t, rating)
             IN  [db |-> UpdateReviews(d1, cardId, userId, updatedCard),
                  ok |-> TRUE, err |-> <<>>, card_id |-> cardId,
                  next_review |-> DayOf(updatedCard.due),
                  interval |-> IntervalDays(updatedCard.due, t)]

\* the same method handing the grades to the scheduler in reverse order
submitReviewReversed(d, t, userId, cardId, rating) ==
    LET found == SelectReview(d, cardId, userId)
    IN  IF found = {}
        THEN [db |-> d, ok |-> FALSE, err |-> <<"Card", cardId, "not found">>, card_id |-> cardId,
              next_review |-> 0, interval |-> 0]
        ELSE LET review == CHOOSE r \in found : TRUE
                 d1 == InsertHistory(d, cardId, userId, review.fsrs, t)
                 updatedCard == SchedulerNext(review.fsrs, t, 5 - rating)
             IN  [db |-> UpdateReviews(d1, cardId, userId, updatedCard),
                  ok |-> TRUE, err |-> <<>>, card_id |-> cardId,
                  next_review |-> DayOf(updatedCard.due),
                  interval |-> IntervalDays(updatedCard.due, t)]

\* the same method counting a lapse for every Again, whatever row it read
submitReviewCountsAgain(d, t, userId, cardId, rating) ==
    LET found == SelectReview(d, cardId, userId)
    IN  IF found = {}
        THEN [db |-> d, ok |-> FALSE, err |-> <<"Card", cardId, "not found">>, card_id |-> cardId,
              next_review |-> 0, interval |-> 0]
        ELSE LET review == CHOOSE r \in found : TRUE
                 d1 == InsertHistory(d, cardId, userId, review.fsrs, t)
                 next == SchedulerNext(review.fsrs, t, rating)
                 updatedCard == IF rating = 1 /\ review.fsrs.state # Review
                                THEN [next EXCEPT !.lapses = @ + 1] ELSE next
             IN  [db |-> UpdateReviews(d1, cardId, userId, updatedCard),
                  ok |-> TRUE, err |-> <<>>, card_id |-> cardId,
                  next_review |-> DayOf(updatedCard.due),
                  interval |-> IntervalDays(updatedCard.due, t)]

submitReview(d, t, userId, cardId, rating) ==
    LET found == SelectReview(d, cardId, userId)
    IN  IF found = {}
        THEN [db |-> d, ok |-> FALSE, err |-> <<"Card", cardId, "not found">>, card_id |-> cardId,
              next_review |-> 0, interval |-> 0]
        ELSE LET review == CHOOSE r \in found : TRUE
                 d1 == InsertHistory(d, cardId, userId, review.fsrs, t)
                 updatedCard == SchedulerNext(review.fsrs, t, rating)
             IN  [db |-> UpdateReviews(d1, cardId, userId, updatedCard),
                  ok |-> TRUE, err |-> <<>>, card_id |-> cardId,
                  next_review |-> DayOf(updatedCard.due),
                  interval |-> IntervalDays(updatedCard.due, t)]

\* the same method without the DELETE FROM review_history
undoReviewReplay(d, userId, cardId) ==
    LET found == SelectLastHistory(d, cardId, userId)
    IN  IF found = {}
        THEN {[db |-> d, ok |-> FALSE, err |-> <<>>]}
        ELSE {[db |-> UpdateReviews(d, cardId, userId, history.fsrs),
               ok |-> TRUE, err |-> <<>>] : history \in found}

\* one outcome per row the SELECT may return
undoReview(d, userId, cardId) ==
    LET found == SelectLastHistory(d, cardId, userId)
    IN  IF found = {}
        THEN {[db |-> d, ok |-> FALSE, err |-> <<>>]}
        ELSE {[db |-> DeleteHistory(UpdateReviews(d, cardId, userId, history.fsrs), history.id),
               ok |-> TRUE, err |-> <<>>] : history \in found}

\* result.meta.changes > 0
deleteCard(d, userId, cardId) ==
    [db |-> DeleteCards(d, cardId, userId),
     ok |-> SelectCard(d, cardId, userId) # {}, err |-> <<>>]

\* instructions = "" and tags = NotProvided stand for an undefined argument
NotProvided == <<"-">>

\* the same method without the "if (!card) return false" check
editCardUnchecked(d, userId, cardId, instructions, tags) ==
    LET d1 == IF instructions # "" THEN UpdateCards(d, cardId, userId, instructions) ELSE d
        d2 == IF tags # NotProvided THEN DeleteTags(d1, cardId, userId) ELSE d1
        tagInserts == TagInserts(cardId, userId, tags)
    IN  IF tags # NotProvided /\ Len(tags) > 0
        THEN IF BatchAccepted(d2, tagInserts)
             THEN [db |-> Batch(d2, tagInserts), ok |-> TRUE, err |-> <<>>]
             ELSE [db |-> d2, ok |-> FALSE, err |-> <<"FOREIGN KEY constraint failed">>]
        ELSE [db |-> d2, ok |-> TRUE, err |-> <<>>]

\* the same method without the DELETE FROM tags
editCardMerge(d, userId, cardId, instructions, tags) ==
    IF SelectCard(d, cardId, userId) = {}
    THEN [db |-> d, ok |-> FALSE, err |-> <<>>]
    ELSE LET d1 == IF instructions # "" THEN UpdateCards(d, cardId, userId, instructions) ELSE d
             tagInserts == TagInserts(cardId, userId, tags)
         IN  IF tags # NotProvided /\ Len(tags) > 0
             THEN IF BatchAccepted(d1, tagInserts)
                  THEN [db |-> Batch(d1, tagInserts), ok |-> TRUE, err |-> <<>>]
                  ELSE [db |-> d1, ok |-> FALSE, err |-> <<"UNIQUE constraint failed">>]
             ELSE [db |-> d1, ok |-> TRUE, err |-> <<>>]

\* the same method with "SELECT id FROM cards WHERE id = ?" as its check
editCardAnyTenant(d, userId, cardId, instructions, tags) ==
    IF ~CardExists(d, cardId) THEN [db |-> d, ok |-> FALSE, err |-> <<>>]
    ELSE editCardUnchecked(d, userId, cardId, instructions, tags)

editCard(d, userId, cardId, instructions, tags) ==
    IF SelectCard(d, cardId, userId) = {}
    THEN [db |-> d, ok |-> FALSE, err |-> <<>>]
    ELSE LET d1 == IF instructions # "" THEN UpdateCards(d, cardId, userId, instructions) ELSE d
             d2 == IF tags # NotProvided THEN DeleteTags(d1, cardId, userId) ELSE d1
             tagInserts == TagInserts(cardId, userId, tags)
         IN  IF tags # NotProvided /\ Len(tags) > 0
             THEN IF BatchAccepted(d2, tagInserts)
                  THEN [db |-> Batch(d2, tagInserts), ok |-> TRUE, err |-> <<>>]
                  ELSE [db |-> d2, ok |-> FALSE, err |-> <<"UNIQUE constraint failed">>]
             ELSE [db |-> d2, ok |-> TRUE, err |-> <<>>]

-----------------------------------------------------------------------------------------------------------------------------------------------------
(* The batch methods: a for loop over the input with a try/catch around each *)
(* single call; sofar is the database and the two result lists after the     *)
(* items already taken                                                        *)

NoneYet(d) == [db |-> d, successful |-> <<>>, failed |-> <<>>]

\* successful.push(item) / failed.push(item) after a call that left d
Pushed(sofar, d, ok, item) ==
    IF ok THEN [db |-> d, successful |-> Append(sofar.successful, item), failed |-> sofar.failed]
    ELSE [db |-> d, successful |-> sofar.successful, failed |-> Append(sofar.failed, item)]

\* error instanceof Error ? error.message : ..., or the text pushed when the
\* call returned false
ErrorText(err, whenFalse) == IF err = <<>> THEN <<whenFalse>> ELSE err

\* the items of list at the positions in keep, in the order of list
SubList(list, keep) ==
    LET upto[i \in 0..Len(list)] ==
            IF i = 0 THEN <<>>
            ELSE IF i \in keep THEN Append(upto[i - 1], list[i]) ELSE upto[i - 1]
    IN  upto[Len(list)]

\* the positions of the first occurrences among those in from
FirstOf(list, from) == {i \in from : \A j \in from : j < i => list[j] # list[i]}

CardIdsOf(items) == [i \in DOMAIN items |-> items[i].card_id]

RECURSIVE submitBatchLoop(_, _, _, _)
submitBatchLoop(sofar, t, userId, reviews) ==
    IF reviews = <<>> THEN sofar
    ELSE LET item == Head(reviews)
             r == submitReview(sofar.db, t, userId, item.card_id, item.rating)
         IN  submitBatchLoop(
                 Pushed(sofar, r.db, r.ok,
                        IF r.ok
                        THEN [card_id |-> item.card_id, next_review |-> r.next_review,
                              interval |-> r.interval]
                        ELSE [card_id |-> item.card_id, error |-> r.err]),
                 t, userId, Tail(reviews))

\* the same loop over the list without the later occurrences of a card id
submitBatchReviewsOnce(d, t, userId, reviews) ==
    submitBatchLoop(NoneYet(d), t, userId,
                    SubList(reviews, FirstOf(CardIdsOf(reviews), DOMAIN reviews)))

submitBatchReviews(d, t, userId, reviews) ==
    submitBatchLoop(NoneYet(d), t, userId, reviews)

RECURSIVE searchBatchLoop(_, _, _)
searchBatchLoop(sofar, userId, searches) ==
    IF searches = <<>> THEN sofar
    ELSE LET search == Head(searches)
             r == searchCardsCall(sofar.db, userId, search.query, search.tags)
         IN  searchBatchLoop(
                 Pushed(sofar, sofar.db, r.ok,
                        IF r.ok THEN [query |-> search.query, cards |-> r.cards]
                        ELSE [query |-> search.query, error |-> r.err]),
                 userId, Tail(searches))

searchCardsInBatch(d, userId, searches) == searchBatchLoop(NoneYet(d), userId, searches)

\* one result per choice of the rows the SELECTs of undoReview may return
RECURSIVE undoBatchLoop(_, _, _)
undoBatchLoop(sofar, userId, cardIds) ==
    IF cardIds = <<>> THEN {sofar}
    ELSE LET cardId == Head(cardIds)
         IN  UNION {undoBatchLoop(
                        Pushed(sofar, r.db, r.ok,
                               IF r.ok THEN [card_id |-> cardId]
                               ELSE [card_id |-> cardId,
                                     error |-> ErrorText(r.err, "No review history found")]),
                        userId, Tail(cardIds))
                    : r \in undoReview(sofar.db, userId, cardId)}

undoReviewsInBatch(d, userId, cardIds) == undoBatchLoop(NoneYet(d), userId, cardIds)

RECURSIVE deleteBatchLoop(_, _, _)
deleteBatchLoop(sofar, userId, cardIds) ==
    IF cardIds = <<>> THEN sofar
    ELSE LET cardId == Head(cardIds)
             r == deleteCard(sofar.db, userId, cardId)
         IN  deleteBatchLoop(
                 Pushed(sofar, r.db, r.ok,
                        IF r.ok THEN [card_id |-> cardId]
                        ELSE [card_id |-> cardId, error |-> ErrorText(r.err, "Card not found")]),
                 userId, Tail(cardIds))

\* the same loop left at the first item that fails
deleteCardsInBatchAbort(d, userId, cardIds) ==
    LET bad == {i \in DOMAIN cardIds :
                   SelectCard(d, cardIds[i], userId) = {}
                   \/ \E j \in 1..(i - 1) : cardIds[j] = cardIds[i]}
        stop == IF bad = {} THEN Len(cardIds) ELSE CHOOSE i \in bad : \A j \in bad : i <= j
    IN  deleteBatchLoop(NoneYet(d), userId, SubSeq(cardIds, 1, stop))

deleteCardsInBatch(d, userId, cardIds) == deleteBatchLoop(NoneYet(d), userId, cardIds)

RECURSIVE editBatchLoop(_, _, _)
editBatchLoop(sofar, userId, edits) ==
    IF edits = <<>> THEN sofar
    ELSE LET edit == Head(edits)
             r == editCard(sofar.db, userId, edit.card_id, edit.instructions, edit.tags)
         IN  editBatchLoop(
                 Pushed(sofar, r.db, r.ok,
                        IF r.ok THEN [card_id |-> edit.card_id]
                        ELSE [card_id |-> edit.card_id,
                              error |-> ErrorText(r.err, "Card not found")]),
                 userId, Tail(edits))

editCardsInBatch(d, userId, edits) == editBatchLoop(NoneYet(d), userId, edits)

-----------------------------------------------------------------------------
(* The entry points of a review: the review_card tool and POST /api/review. *)
(* A rating arrives as a JSON number; it is written here in tenths, 25 for  *)
(* 2.5, so that a number between two grades can be passed                    *)

Tenths == 10
RatingArgs == {0, 10, 25, 30, 40, 50}

IsGrade(rating) == rating % Tenths = 0 /\ (rating \div Tenths) \in Grades

\* z.number().min(1).max(4); typeof rating !== "number" || rating < 1 || rating > 4
RatingAccepted(rating) == rating >= 1 * Tenths /\ rating <= 4 * Tenths

\* submitReview called with any number: the row is read, the snapshot is
\* inserted, and only then is the rating handed to scheduler.next. Given a
\* number that is no Grade the library throws or returns some card; both are
\* taken, and the card it returns is any of the four it can compute.
submitReviewNumber(d, t, userId, cardId, rating) ==
    IF IsGrade(rating) THEN {submitReview(d, t, userId, cardId, rating \div Tenths)}
    ELSE LET found == SelectReview(d, cardId, userId)
         IN  IF found = {}
             THEN {[db |-> d, ok |-> FALSE, err |-> <<"Card", cardId, "not found">>,
                    card_id |-> cardId, next_review |-> 0, interval |-> 0]}
             ELSE LET review == CHOOSE r \in found : TRUE
                      d1 == InsertHistory(d, cardId, userId, review.fsrs, t)
                  IN  {[db |-> d1, ok |-> FALSE, err |-> <<"Invalid grade">>,
                        card_id |-> cardId, next_review |-> 0, interval |-> 0]}
                      \cup
                      {[db |-> UpdateReviews(d1, cardId, userId, SchedulerNext(review.fsrs, t, g)),
                        ok |-> TRUE, err |-> <<>>, card_id |-> cardId,
                        next_review |-> DayOf(SchedulerNext(review.fsrs, t, g).due),
                        interval |-> IntervalDays(SchedulerNext(review.fsrs, t, g).due, t)]
                       : g \in Grades}

\* what the caller of an entry point gets: rejected before the method ran, or
\* the method's result (a thrown error is caught and reported)
Rejected(d, text) ==
    [db |-> d, ok |-> FALSE, err |-> <<text>>, card_id |-> 0, next_review |-> 0, interval |-> 0]

\* api.post("/review", ...)
postReview(d, t, userId, cardId, rating) ==
    IF ~RatingAccepted(rating) THEN {Rejected(d, "rating must be 1, 2, 3, or 4")}
    ELSE submitReviewNumber(d, t, userId, cardId, rating)

\* review_card, single mode
reviewCard(d, t, userId, cardId, rating) ==
    IF ~RatingAccepted(rating) THEN {Rejected(d, "Invalid arguments")}
    ELSE submitReviewNumber(d, t, userId, cardId, rating)

\* submitBatchReviews over numbers: every way the loop can go
RECURSIVE submitBatchNumbers(_, _, _, _)
submitBatchNumbers(sofar, t, userId, reviews) ==
    IF reviews = <<>> THEN {sofar}
    ELSE LET item == Head(reviews)
         IN  UNION {submitBatchNumbers(
                        Pushed(sofar, r.db, r.ok,
                               IF r.ok
                               THEN [card_id |-> item.card_id, next_review |-> r.next_review,
                                     interval |-> r.interval]
                               ELSE [card_id |-> item.card_id, error |-> r.err]),
                        t, userId, Tail(reviews))
                    : r \in submitReviewNumber(sofar.db, t, userId, item.card_id, item.rating)}

\* review_card, batch mode: the schema refuses the whole call when one rating
\* is out of range
reviewCards(d, t, userId, reviews) ==
    IF \E i \in DOMAIN reviews : ~RatingAccepted(reviews[i].rating)
    THEN {[db |-> d, successful |-> <<>>, failed |-> <<>>, refused |-> TRUE]}
    ELSE {[db |-> r.db, successful |-> r.successful, failed |-> r.failed, refused |-> FALSE]
          : r \in submitBatchNumbers(NoneYet(d), t, userId, reviews)}

-----------------------------------------------------------------------------
(* The REST API (api-routes.ts).  An access token is its leading part and  *)
(* what follows it, so that startsWith and replace act on what they read.  *)

DEV_PREFIX == "test_token_"

Token(prefix, rest) == [prefix |-> prefix, rest |-> rest]

\* the Authorization header as sent: absent, or a scheme and a token
NoAuthorization == [scheme |-> "", token |-> Token("", "")]
Bearer(token) == [scheme |-> "Bearer ", token |-> token]

\* what https://www.googleapis.com/oauth2/v2/userinfo answers for a token
Userinfo(token) ==
    IF token = Token("", "ya29.alice")
    THEN [ok |-> TRUE, email |-> "alice", verified_email |-> TRUE]
    ELSE IF token = Token("", "ya29.bob")
    THEN [ok |-> TRUE, email |-> "bob", verified_email |-> TRUE]
    ELSE IF token = Token("", "ya29.unverified")
    THEN [ok |-> TRUE, email |-> "bob", verified_email |-> FALSE]
    ELSE [ok |-> FALSE, email |-> "", verified_email |-> FALSE]

\* the email, "" for null
verifyGoogleToken(accessToken) ==
    IF accessToken.prefix = DEV_PREFIX THEN accessToken.rest
    ELSE LET userInfo == Userinfo(accessToken)
         IN  IF ~userInfo.ok THEN ""
             ELSE IF ~userInfo.verified_email THEN ""
             ELSE userInfo.email

\* the first lines of every route: the tenant the request will act for, ""
\* when it is answered 401
userEmailOf(authHeader) ==
    IF authHeader = NoAuthorization \/ authHeader.scheme # "Bearer " THEN ""
    ELSE verifyGoogleToken(authHeader.token)

\* a response: tenant is the user the SpacedRepetition object was built for,
\* "" when none was built
Unauthorized(d) == [status |-> 401, db |-> d, tenant |-> "", ok |-> FALSE]

\* api.get("/due-cards", ...)
apiDueCards(d, t, authHeader, limit, tags) ==
    IF userEmailOf(authHeader) = "" THEN Unauthorized(d)
    ELSE [status |-> 200, db |-> d, tenant |-> userEmailOf(authHeader), ok |-> TRUE]

\* api.post("/review", ...)
apiReview(d, t, authHeader, cardId, rating) ==
    IF userEmailOf(authHeader) = "" THEN {Unauthorized(d)}
    ELSE IF ~RatingAccepted(rating)
    THEN {[status |-> 400, db |-> d, tenant |-> "", ok |-> FALSE]}
    ELSE {[status |-> IF r.ok THEN 200 ELSE 500, db |-> r.db,
           tenant |-> userEmailOf(authHeader), ok |-> r.ok]
          : r \in postReview(d, t, userEmailOf(authHeader), cardId, rating)}

\* api.get("/stats", ...)
apiStats(d, t, authHeader) ==
    IF userEmailOf(authHeader) = "" THEN Unauthorized(d)
    ELSE [status |-> 200, db |-> d, tenant |-> userEmailOf(authHeader), ok |-> TRUE]

-----
(* Observations kept beside the program state *)

FsrsOf(d, cardId) == {r.fsrs : r \in {r \in d.reviews : r.card_id = cardId}}
HistoryOf(d, cardId) == {h \in d.review_history : h.card_id = cardId}
TagsOf(d, cardId) == {r \in d.tags : r.card_id = cardId}

\* rows of tags, reviews and review_history that name the card
RowsOf(d, cardId) ==
    Cardinality(TagsOf(d, cardId)) + Cardinality({r \in d.reviews : r.card_id = cardId})
        + Cardinality(HistoryOf(d, cardId))

NoCall == [op |-> "none", user |-> "", card |-> 0, ok |-> FALSE, err |-> <<>>,
           before |-> {}, follows |-> FALSE]

\* the latest call and what its caller saw; before: the schedule state a
\* successful review found; follows: a successful undo that comes right after
\* a successful review of the same card
Call(op, userId, cardId, r) ==
    [op |-> op, user |-> userId, card |-> cardId, ok |-> r.ok, err |-> r.err,
     before |-> IF op = "submitReview" /\ r.ok THEN FsrsOf(db, cardId) ELSE {},
     follows |-> /\ op = "undoReview" /\ r.ok
                 /\ last.op = "submitReview" /\ last.ok /\ last.card = cardId]

See(op, userId, cardId, r) == last' = Call(op, userId, cardId, r) /\ UNCHANGED <<batch, reading>>

\* trail[c]: the schedule states of card c, oldest first, that a last-in-first-out
\* undo walks back through; phase[c]: "S" while c has only been reviewed, "U" once
\* undos have followed the reviews, "X" after any other order of calls
TrackAdd(r) ==
    /\ trail' = Append(trail, IF r.ok THEN <<createEmptyCard(now)>> ELSE <<>>)
    /\ phase' = Append(phase, "S")

TrackSubmit(cardId, r) ==
    IF r.ok
    THEN /\ trail' = [trail EXCEPT ![cardId] = Append(@, CHOOSE f \in FsrsOf(r.db, cardId) : TRUE)]
         /\ phase' = [phase EXCEPT ![cardId] = IF @ = "S" THEN "S" ELSE "X"]
    ELSE UNCHANGED <<trail, phase>>

TrackUndo(cardId, r) ==
    IF r.ok
    THEN /\ trail' = [trail EXCEPT ![cardId] = IF Len(@) > 1 THEN SubSeq(@, 1, Len(@) - 1) ELSE @]
         /\ phase' = [phase EXCEPT ![cardId] = IF @ = "X" \/ Len(trail[cardId]) <= 1 THEN "X" ELSE "U"]
    ELSE UNCHANGED <<trail, phase>>

NoBatch == [op |-> "none", partial |-> FALSE]

\* the latest batch call and whether it returned items in both of its lists
BatchCall(op, r) ==
    [op |-> op, partial |-> r.successful # <<>> /\ r.failed # <<>>]

\* no getStats is running
NotReading == [running |-> FALSE, current |-> NULL, longest |-> NULL]

Unobserved == UNCHANGED <<last, trail, phase, batch, reading>>
ConcUnchanged == UNCHANGED <<pc, local, fin, pendingSnap>>

-----------------------------------------------------------------------------
(* Actions: one call of a method *)

Sessions == {1, 2}

\* submitReview's cardId, rating, review (the row it read) and the id of the
\* review_history row it inserted
NoLocal == [card |-> 0, rating |-> 0, review |-> createEmptyCard(0), snap |-> 0]

Init ==
    /\ db = [cards |-> {}, cards_fts |-> {}, tags |-> {}, reviews |-> {},
             review_history |-> {}, seq_cards |-> 0, seq_history |-> 0]
    /\ now = 0
    /\ made = <<>>
    /\ last = NoCall
    /\ trail = <<>>
    /\ phase = <<>>
    /\ pc = [s \in Sessions |-> "idle"]
    /\ local = [s \in Sessions |-> NoLocal]
    /\ fin = [s \in Sessions |-> <<>>]
    /\ pendingSnap = {}
    /\ batch = NoBatch
    /\ reading = NotReading

\* the call returns (or throws) r and leaves the database r.db
Returns(r) ==
    /\ db' = r.db
    /\ UNCHANGED now
    /\ ConcUnchanged

AddCard(userId, instructions, tags) ==
    /\ Returns(addCard(db, now, userId, instructions, tags))
    /\ made' = Append(made, [by |-> userId, erased |-> NULL])

SubmitReview(userId, cardId, rating) ==
    /\ Returns(submitReview(db, now, userId, cardId, rating))
    /\ UNCHANGED made

UndoReview(userId, cardId, r) ==
    /\ r \in undoReview(db, userId, cardId)
    /\ Returns(r)
    /\ UNCHANGED made

DeleteCard(userId, cardId) ==
    /\ Returns(deleteCard(db, userId, cardId))
    /\ made' = IF deleteCard(db, userId, cardId).ok
               THEN [made EXCEPT ![cardId].erased = RowsOf(db, cardId)]
               ELSE made

EditCard(userId, cardId, instructions, tags) ==
    /\ Returns(editCard(db, userId, cardId, instructions, tags))
    /\ UNCHANGED made

Tick ==
    /\ TicksUsed(now) < MaxTicks
    /\ now' = IF now % Day = 0 THEN now + 1 ELSE now + Day - 1
    /\ UNCHANGED <<db, made, last, trail, phase, batch, reading>>
    /\ ConcUnchanged

\* the ids handed out so far and one that never was
CardIds == 1..(db.seq_cards + 1)

-----------------------------------------------------------------------------
(* Spec: two tenants and their cards *)

EditArgs == {<<"y", NotProvided>>, <<"", <<"b">> >>}

Next ==
    \/ \E u \in Users, t \in TagArgs :
          db.seq_cards < MaxCards /\ AddCard(u, "x", t) /\ Unobserved
    \/ \E u \in Users, c \in CardIds :
          submitReview(db, now, u, c, 3).db.seq_history <= MaxHist /\ SubmitReview(u, c, 3) /\ Unobserved
    \/ \E u \in Users, c \in CardIds :
          \E r \in undoReview(db, u, c) : UndoReview(u, c, r) /\ Unobserved
    \/ \E u \in Users, c \in CardIds : DeleteCard(u, c) /\ Unobserved
    \/ \E u \in Users, c \in CardIds, e \in EditArgs :
          EditCard(u, c, e[1], e[2]) /\ Unobserved

Spec == Init /\ [][Next]_vars

-----------------------------------------------------------------------------
(* CallSpec: the same calls, with what each caller saw *)

CallNext ==
    \/ \E u \in Users, t \in TagArgs :
          /\ db.seq_cards < MaxCallCards
          /\ AddCard(u, "x", t)
          /\ See("addCard", u, db.seq_cards + 1, addCard(db, now, u, "x", t))
          /\ UNCHANGED <<trail, phase>>
    \/ \E u \in Users, c \in CardIds :
          /\ submitReview(db, now, u, c, 3).db.seq_history <= MaxCallHist
          /\ SubmitReview(u, c, 3)
          /\ See("submitReview", u, c, submitReview(db, now, u, c, 3))
          /\ UNCHANGED <<trail, phase>>
    \/ \E u \in Users, c \in CardIds :
          \E r \in undoReview(db, u, c) :
              UndoReview(u, c, r) /\ See("undoReview", u, c, r) /\ UNCHANGED <<trail, phase>>
    \/ \E u \in Users, c \in CardIds :
          /\ DeleteCard(u, c)
          /\ See("deleteCard", u, c, deleteCard(db, u, c))
          /\ UNCHANGED <<trail, phase>>
    \/ \E u \in Users, c \in CardIds, e \in EditArgs :
          /\ EditCard(u, c, e[1], e[2])
          /\ See("editCard", u, c, editCard(db, u, c, e[1], e[2]))
          /\ UNCHANGED <<trail, phase>>

CallSpec == Init /\ [][CallNext]_vars

-----------------------------------------------------------------------------
(* CardSpec: the reviews and undos of one card as the clock advances *)

CardNext ==
    \/ Tick
    \/ /\ db.seq_cards = 0
       /\ AddCard("alice", "x", <<>>)
       /\ See("addCard", "alice", 1, addCard(db, now, "alice", "x", <<>>))
       /\ TrackAdd(addCard(db, now, "alice", "x", <<>>))
    \/ \E c \in 1..db.seq_cards, g \in Grades :
          /\ db.seq_history < MaxReviews
          /\ SubmitReview("alice", c, g)
          /\ See("submitReview", "alice", c, submitReview(db, now, "alice", c, g))
          /\ TrackSubmit(c, submitReview(db, now, "alice", c, g))
    \/ \E c \in 1..db.seq_cards :
          \E r \in undoReview(db, "alice", c) :
              UndoReview("alice", c, r) /\ See("undoReview", "alice", c, r) /\ TrackUndo(c, r)

CardSpec == Init /\ [][CardNext]_vars

-----------------------------------------------------------------------------
(* ConcSpec: two sessions of one tenant run submitReview one statement at   *)
(* a time against the shared database; a call may end between statements    *)

Tenant == "alice"

Started == db.seq_history + Cardinality({s \in Sessions : pc[s] = "insert"})

ConcAddCard ==
    /\ db.seq_cards = 0
    /\ AddCard(Tenant, "x", <<>>)
    /\ Unobserved

\* const review = await ... SELECT ... .first(); if (!review) throw
SubmitSelect(s, cardId, rating) ==
    /\ pc[s] = "idle"
    /\ Started < MaxConcReviews
    /\ LET found == SelectReview(db, cardId, Tenant)
       IN  IF found = {}
           THEN UNCHANGED <<pc, local>>
           ELSE /\ pc' = [pc EXCEPT ![s] = "insert"]
                /\ local' = [local EXCEPT ![s] =
                       [card |-> cardId, rating |-> rating,
                        review |-> (CHOOSE r \in found : TRUE).fsrs, snap |-> 0]]
    /\ UNCHANGED <<db, now, made, fin, pendingSnap>>
    /\ Unobserved

\* await ... INSERT INTO review_history ... .run()
SubmitInsert(s) ==
    /\ pc[s] = "insert"
    /\ db' = InsertHistory(db, local[s].card, Tenant, local[s].review, now)
    /\ local' = [local EXCEPT ![s].snap = db'.seq_history]
    /\ pendingSnap' = pendingSnap \cup {db'.seq_history}
    /\ pc' = [pc EXCEPT ![s] = "update"]
    /\ UNCHANGED <<now, made, fin>>
    /\ Unobserved

\* scheduler.next(card, now, rating); await ... UPDATE reviews ... .run(); return
SubmitUpdate(s) ==
    /\ pc[s] = "update"
    /\ db' = UpdateReviews(db, local[s].card, Tenant,
                           SchedulerNext(local[s].review, now, local[s].rating))
    /\ pendingSnap' = pendingSnap \ {local[s].snap}
    /\ fin' = [fin EXCEPT ![s] = Append(@, local[s].rating)]
    /\ pc' = [pc EXCEPT ![s] = "idle"]
    /\ local' = [local EXCEPT ![s] = NoLocal]
    /\ UNCHANGED <<now, made>>
    /\ Unobserved

\* the awaited statement rejects or the request is ended: the call runs no
\* further statement
Stop(s) ==
    /\ pc[s] \in {"insert", "update"}
    /\ pc' = [pc EXCEPT ![s] = "idle"]
    /\ local' = [local EXCEPT ![s] = NoLocal]
    /\ UNCHANGED <<db, now, made, fin, pendingSnap>>
    /\ Unobserved

ConcNext ==
    \/ ConcAddCard
    \/ \E s \in Sessions, c \in 1..db.seq_cards, g \in Grades : SubmitSelect(s, c, g)
    \/ \E s \in Sessions : SubmitInsert(s)
    \/ \E s \in Sessions : SubmitUpdate(s)
    \/ \E s \in Sessions : Stop(s)

ConcSpec == Init /\ [][ConcNext]_vars

Quiescent == \A s \in Sessions : pc[s] = "idle"

-----------------------------------------------------------------------------
(* DueSpec: one tenant's cards, their reviews and the clock *)

DueTagArgs == {<<>>, <<"a">>}
DueGrades == {1, 4}

DueNext ==
    \/ Tick
    \/ \E tags \in DueTagArgs :
          db.seq_cards < MaxDueCards /\ AddCard(Tenant, "x", tags) /\ Unobserved
    \/ \E c \in 1..db.seq_cards, g \in DueGrades :
          db.seq_history < MaxDueReviews /\ SubmitReview(Tenant, c, g) /\ Unobserved

DueSpec == Init /\ [][DueNext]_vars

-----------------------------------------------------------------------------
(* BatchSpec: the batch calls of one tenant *)

ListsOf(items) == UNION {[1..n -> items] : n \in 0..MaxBatch}

BatchGrades == {1, 3}
BatchEditArgs == {<<"y", NotProvided>>, <<"", <<"a", " a">> >>}
BatchQueries == {"x", "'"}

ReviewItems(grades) == [card_id : CardIds, rating : grades]
EditItems(args) == {[card_id |-> c, instructions |-> e[1], tags |-> e[2]] :
                       c \in CardIds, e \in args}
SearchItems(queries) == [query : queries, tags : {{}}]

\* the batch call returns r and leaves the database r.db
BatchReturns(op, r) ==
    /\ r.db.seq_history <= MaxBatchHist
    /\ db' = r.db
    /\ batch' = BatchCall(op, r)
    /\ UNCHANGED <<now, made, last, trail, phase, reading>>
    /\ ConcUnchanged

SubmitBatchReviews(userId, reviews) ==
    BatchReturns("submitBatchReviews", submitBatchReviews(db, now, userId, reviews))

SearchCardsInBatch(userId, searches) ==
    BatchReturns("searchCardsInBatch", searchCardsInBatch(db, userId, searches))

UndoReviewsInBatch(userId, cardIds, r) ==
    /\ r \in undoReviewsInBatch(db, userId, cardIds)
    /\ BatchReturns("undoReviewsInBatch", r)

DeleteCardsInBatch(userId, cardIds) ==
    BatchReturns("deleteCardsInBatch", deleteCardsInBatch(db, userId, cardIds))

EditCardsInBatch(userId, edits) ==
    BatchReturns("editCardsInBatch", editCardsInBatch(db, userId, edits))

BatchNext ==
    \/ db.seq_cards < MaxBatchCards /\ AddCard(Tenant, "x", <<"a">>) /\ Unobserved
    \/ \E reviews \in ListsOf(ReviewItems({3})) : SubmitBatchReviews(Tenant, reviews)
    \/ \E searches \in ListsOf(SearchItems({"'"})) : SearchCardsInBatch(Tenant, searches)
    \/ \E cardIds \in ListsOf(CardIds) :
          \E r \in undoReviewsInBatch(db, Tenant, cardIds) :
              UndoReviewsInBatch(Tenant, cardIds, r)
    \/ \E cardIds \in ListsOf(CardIds) : DeleteCardsInBatch(Tenant, cardIds)
    \/ \E edits \in ListsOf(EditItems({<<"y", NotProvided>>})) :
          EditCardsInBatch(Tenant, edits)

BatchSpec == Init /\ [][BatchNext]_vars

-----------------------------------------------------------------------------
(* StreakSpec: two tenants review and undo their cards over several days *)

\* midnight passes
NextDay ==
    /\ DayOf(now) < MaxStreakDays
    /\ now' = now + Day
    /\ UNCHANGED <<db, made>>
    /\ Unobserved
    /\ ConcUnchanged

StreakNext ==
    \/ NextDay
    \/ \E u \in Users :
          /\ \A c \in db.cards : c.user_id # u
          /\ AddCard(u, "x", <<>>)
          /\ Unobserved
    \/ \E u \in Users, c \in 1..db.seq_cards :
          db.seq_history < MaxStreakReviews /\ SubmitReview(u, c, 3) /\ Unobserved
    \/ \E u \in Users, c \in 1..db.seq_cards :
          \E r \in undoReview(db, u, c) : UndoReview(u, c, r) /\ Unobserved

StreakSpec == Init /\ [][StreakNext]_vars

-----------------------------------------------------------------------------
(* EntrySpec: one tenant reviews through the review_card tool and through   *)
(* POST /api/review, with ratings inside and outside the four grades        *)

EntryReturns(r) ==
    /\ r.db.seq_history <= MaxEntryHist
    /\ Returns(r)
    /\ UNCHANGED made
    /\ Unobserved

PostReview(cardId, rating) ==
    \E r \in postReview(db, now, Tenant, cardId, rating) : EntryReturns(r)

ReviewCard(cardId, rating) ==
    \E r \in reviewCard(db, now, Tenant, cardId, rating) : EntryReturns(r)

ReviewCards(reviews) ==
    \E r \in reviewCards(db, now, Tenant, reviews) : EntryReturns(r)

EntryNext ==
    \/ Tick
    \/ db.seq_cards < MaxEntryCards /\ AddCard(Tenant, "x", <<>>) /\ Unobserved
    \/ \E c \in CardIds, rating \in RatingArgs : PostReview(c, rating)
    \/ \E c \in CardIds, rating \in RatingArgs : ReviewCard(c, rating)
    \/ \E reviews \in ListsOf(ReviewItems(RatingArgs)) : ReviewCards(reviews)

EntrySpec == Init /\ [][EntryNext]_vars

-----------------------------------------------------------------------------
(* ApiSpec: requests to the REST API with every kind of Authorization      *)
(* header, beside two tenants who add cards through the tool               *)

Tokens == {Token("", "ya29.alice"), Token("", "ya29.bob"), Token("", "ya29.unverified"),
           Token("", "expired"), Token(DEV_PREFIX, "bob"), Token(DEV_PREFIX, "")}

AuthHeaders == {NoAuthorization} \cup {[scheme |-> sch, token |-> tok] :
                                        sch \in {"Bearer ", "Basic "}, tok \in Tokens}

ApiRatings == {0, 30}

\* the route answers r; last keeps the route and the tenant it acted for
Responds(route, r) ==
    /\ r.db.seq_history <= MaxApiHist
    /\ db' = r.db
    /\ last' = [NoCall EXCEPT !.op = route, !.user = r.tenant, !.ok = r.ok, !.err = <<r.status>>]
    /\ UNCHANGED <<now, made, trail, phase, batch, reading>>
    /\ ConcUnchanged

GetDueCards(authHeader) == Responds("GET /due-cards", apiDueCards(db, now, authHeader, NULL, {}))

PostApiReview(authHeader, cardId, rating) ==
    \E r \in apiReview(db, now, authHeader, cardId, rating) : Responds("POST /review", r)

GetStats(authHeader) == Responds("GET /stats", apiStats(db, now, authHeader))

ApiNext ==
    \/ Tick
    \/ \E u \in Users : db.seq_cards < MaxApiCards /\ AddCard(u, "x", <<>>) /\ Unobserved
    \/ \E h \in AuthHeaders : GetDueCards(h)
    \/ \E h \in AuthHeaders, c \in CardIds, rating \in ApiRatings : PostApiReview(h, c, rating)
    \/ \E h \in AuthHeaders : GetStats(h)

ApiSpec == Init /\ [][ApiNext]_vars

-----------------------------------------------------------------------------
(* LedgerSpec: two tenants add, review, undo, edit and     *)
(* delete cards, one call after the other, several reviews per card        *)

LedgerGrades == {3}
LedgerEditArgs == {<<"", <<"b">> >>}

LedgerNext ==
    \/ \E u \in Users, t \in TagArgs :
          db.seq_cards < MaxLedgerCards /\ AddCard(u, "x", t) /\ Unobserved
    \/ \E u \in Users, c \in CardIds, g \in LedgerGrades :
          /\ submitReview(db, now, u, c, g).db.seq_history <= MaxLedgerHist
          /\ SubmitReview(u, c, g) /\ Unobserved
    \/ \E u \in Users, c \in CardIds :
          \E r \in undoReview(db, u, c) : UndoReview(u, c, r) /\ Unobserved
    \/ \E u \in Users, c \in CardIds : DeleteCard(u, c) /\ Unobserved
    \/ \E u \in Users, c \in CardIds, e \in LedgerEditArgs :
          EditCard(u, c, e[1], e[2]) /\ Unobserved

LedgerSpec == Init /\ [][LedgerNext]_vars

-----------------------------------------------------------------------------
(* UndoSpec: two sessions of one tenant run undoReview one statement at a  *)
(* time on a card that has been reviewed; a call may end between statements *)

UndoReviewed ==
    /\ \A s \in Sessions : pc[s] = "idle"
    /\ db.seq_cards = 1 /\ db.seq_history < MaxUndoReviews
    /\ SubmitReview(Tenant, 1, 3)
    /\ Unobserved

\* the calls that have run their UPDATE or are about to
UndosStarted ==
    Len(fin[1]) + Len(fin[2]) + Cardinality({s \in Sessions : pc[s] = "restore"})

\* const history = await ... SELECT ... ORDER BY created_at DESC LIMIT 1;
\* if (!history) return false
UndoSelect(s, cardId) ==
    /\ pc[s] = "idle"
    /\ UndosStarted < MaxUndoCalls
    /\ \E history \in SelectLastHistory(db, cardId, Tenant) :
          /\ pc' = [pc EXCEPT ![s] = "restore"]
          /\ local' = [local EXCEPT ![s] = [card |-> cardId, rating |-> 0,
                                            review |-> history.fsrs, snap |-> history.id]]
    /\ UNCHANGED <<db, now, made, fin, pendingSnap>>
    /\ Unobserved

\* await ... UPDATE reviews SET ... .run(); fin keeps the snapshot restored
UndoUpdate(s) ==
    /\ pc[s] = "restore"
    /\ db' = UpdateReviews(db, local[s].card, Tenant, local[s].review)
    /\ fin' = [fin EXCEPT ![s] = Append(@, local[s].snap)]
    /\ pc' = [pc EXCEPT ![s] = "delete"]
    /\ UNCHANGED <<now, made, local, pendingSnap>>
    /\ Unobserved

\* await ... DELETE FROM review_history WHERE id = ? .run(); return true
UndoDelete(s) ==
    /\ pc[s] = "delete"
    /\ db' = DeleteHistory(db, local[s].snap)
    /\ pc' = [pc EXCEPT ![s] = "idle"]
    /\ local' = [local EXCEPT ![s] = NoLocal]
    /\ UNCHANGED <<now, made, fin, pendingSnap>>
    /\ Unobserved

\* the awaited statement rejects or the request is ended
UndoStop(s) ==
    /\ pc[s] \in {"restore", "delete"}
    /\ pc' = [pc EXCEPT ![s] = "idle"]
    /\ local' = [local EXCEPT ![s] = NoLocal]
    /\ UNCHANGED <<db, now, made, fin, pendingSnap>>
    /\ Unobserved

UndoNext ==
    \/ ConcAddCard
    \/ UndoReviewed
    \/ \E s \in Sessions, c \in 1..db.seq_cards : UndoSelect(s, c)
    \/ \E s \in Sessions : UndoUpdate(s)
    \/ \E s \in Sessions : UndoDelete(s)
    \/ \E s \in Sessions : UndoStop(s)

UndoSpec == Init /\ [][UndoNext]_vars

-----------------------------------------------------------------------------
(* RaceSpec: submitReview run statement by statement while deleteCard and  *)
(* undoReview calls of the same tenant come in between                     *)

\* the INSERT names a card that is gone: the statement fails and the call throws
RaceInsert(s) ==
    IF CardExists(db, local[s].card) THEN SubmitInsert(s) ELSE Stop(s)

RaceNext ==
    \/ ConcAddCard
    \/ \E s \in Sessions, c \in 1..db.seq_cards, g \in Grades : SubmitSelect(s, c, g)
    \/ \E s \in Sessions : pc[s] = "insert" /\ RaceInsert(s)
    \/ \E s \in Sessions : SubmitUpdate(s)
    \/ \E c \in 1..db.seq_cards :
          /\ db' = deleteCard(db, Tenant, c).db
          /\ deleteCard(db, Tenant, c).ok
          /\ UNCHANGED <<now, made>> /\ Unobserved /\ ConcUnchanged
    \/ \E c \in 1..db.seq_cards :
          \E r \in undoReview(db, Tenant, c) :
              r.ok /\ db' = r.db /\ UNCHANGED <<now, made>> /\ Unobserved /\ ConcUnchanged

RaceSpec == Init /\ [][RaceNext]_vars

-----------------------------------------------------------------------------
(* StatsSpec: getStats issues its queries in parallel; the two streak      *)
(* queries return one after the other, in either order, while the tenant   *)
(* reviews and undoes and the days pass                                    *)

\* await Promise.all([...]) is entered
StatsStart ==
    /\ ~reading.running
    /\ reading' = [NotReading EXCEPT !.running = TRUE]
    /\ UNCHANGED <<db, now, made, last, trail, phase, batch>>
    /\ ConcUnchanged

\* this.getCurrentStreak() returns
StatsCurrentStreak ==
    /\ reading.running /\ reading.current = NULL
    /\ reading' = [reading EXCEPT !.current = getCurrentStreak(db, Tenant, now)]
    /\ UNCHANGED <<db, now, made, last, trail, phase, batch>>
    /\ ConcUnchanged

\* this.getLongestStreak() returns
StatsLongestStreak ==
    /\ reading.running /\ reading.longest = NULL
    /\ reading' = [reading EXCEPT !.longest = getLongestStreak(db, Tenant)]
    /\ UNCHANGED <<db, now, made, last, trail, phase, batch>>
    /\ ConcUnchanged

\* the Stats object is built and returned
StatsReturn ==
    /\ reading.running /\ reading.current # NULL /\ reading.longest # NULL
    /\ reading' = NotReading
    /\ UNCHANGED <<db, now, made, last, trail, phase, batch>>
    /\ ConcUnchanged

\* a call of the tenant that runs when no getStats does, or in between
StatsOther ==
    \/ ConcAddCard
    \/ db.seq_cards = 1 /\ db.seq_history < MaxStatsReviews /\ SubmitReview(Tenant, 1, 3) /\ Unobserved
    \/ \E r \in undoReview(db, Tenant, 1) : r.ok /\ UndoReview(Tenant, 1, r) /\ Unobserved

StatsNext ==
    \/ NextDay
    \/ StatsOther
    \/ StatsStart
    \/ StatsCurrentStreak
    \/ StatsLongestStreak
    \/ StatsReturn

StatsSpec == Init /\ [][StatsNext]_vars

-----------------------------------------------------------------------------
(* TagSpec: two tenants tag, retag and review their cards *)

TagNext ==
    \/ \E u \in Users, t \in TagArgs :
          db.seq_cards < MaxTagCards /\ AddCard(u, "x", t) /\ Unobserved
    \/ \E u \in Users, c \in 1..db.seq_cards, e \in EditArgs :
          EditCard(u, c, e[1], e[2]) /\ Unobserved
    \/ \E u \in Users, c \in 1..db.seq_cards :
          db.seq_history < MaxTagReviews /\ SubmitReview(u, c, 3) /\ Unobserved

TagSpec == Init /\ [][TagNext]_vars

-----------------------------------------------------------------------------
(* Tenants (Spec) *)

TagFilters == SUBSET {"a", "b"}
Queries == {"", "x", "y"}
DueTimes == {now, now + Day}
AnyEditArgs == EditArgs \cup {<<"y", <<"a", " a">> >>}

\* ids of cards created by another tenant than userId
CardsOfOthers(userId) == {c \in DOMAIN made : made[c].by # userId}

(* C5: tenant isolation.  Whatever calls came before, getAllCards,          *)
(* searchCards and getDueCards of a tenant return only cards that tenant    *)
(* created, and editCard, deleteCard, submitReview and undoReview called    *)
(* with the id of another tenant's card do not succeed and leave the whole  *)
(* database (cards, tags, reviews, review_history) as it was.               *)
C5_TenantIsolation ==
    \A u \in Users :
        /\ \A T \in TagFilters, q \in Queries, t \in DueTimes :
              \A id \in getAllCards(db, u, T) \cup searchCards(db, u, q, T)
                          \cup DueRows(db, u, T, t) :
                  made[id].by = u
        /\ \A c \in CardsOfOthers(u) :
              /\ \A e \in AnyEditArgs :
                    /\ ~editCard(db, u, c, e[1], e[2]).ok
                    /\ editCard(db, u, c, e[1], e[2]).db = db
              /\ ~deleteCard(db, u, c).ok
              /\ deleteCard(db, u, c).db = db
              /\ \A g \in Grades :
                    /\ ~submitReview(db, now, u, c, g).ok
                    /\ submitReview(db, now, u, c, g).err = <<"Card", c, "not found">>
                    /\ submitReview(db, now, u, c, g).db = db
              /\ \A r \in undoReview(db, u, c) : ~r.ok /\ r.db = db

\* both tenants hold a card with the same text; bob's has a tag, a schedule
\* state and a snapshot, and is what bob's listing returns
C5_BothTenantsHoldCards ==
    \E a, b \in db.cards :
        /\ a.user_id = "alice" /\ made[a.id].by = "alice"
        /\ b.user_id = "bob" /\ made[b.id].by = "bob"
        /\ a.instructions = b.instructions
        /\ TagsOf(db, b.id) # {} /\ HistoryOf(db, b.id) # {}
        /\ getAllCards(db, "bob", {}) = {b.id}
        /\ b.id \in CardsOfOthers("alice")

(* C6: cascade deletion.  Once deleteCard(cardId) has returned true, no row *)
(* of tags, reviews or review_history names that card id, and getAllCards,  *)
(* getDueCards and searchCards do not return the id, in this and in every   *)
(* later state.                                                             *)
C6_CascadeDeletion ==
    \A c \in DOMAIN made :
        made[c].erased # NULL =>
            /\ ~CardExists(db, c)
            /\ RowsOf(db, c) = 0
            /\ \A u \in Users, T \in TagFilters, q \in Queries, t \in DueTimes :
                  c \notin getAllCards(db, u, T) \cup searchCards(db, u, q, T)
                               \cup DueRows(db, u, T, t)

\* a card was deleted together with a tag, its schedule state and a snapshot,
\* while another card keeps its rows
C6_DeletedWithRows ==
    \E c \in DOMAIN made :
        /\ made[c].erased >= 3
        /\ \E k \in db.cards : RowsOf(db, k.id) >= 2

(* C7: createCard is atomic.  Every addCard call, returning or throwing,    *)
(* leaves either both the card row and its reviews row or neither.          *)
C7_CreateAtomic ==
    [][Len(made') = Len(made) + 1 =>
          (CardExists(db', Len(made')) <=> FsrsOf(db', Len(made')) # {})]_vars

(* C8: every existing card has exactly one reviews row and every reviews    *)
(* row belongs to an existing card.                                         *)
C8_OneScheduleStatePerCard ==
    /\ \A c \in db.cards : Cardinality({r \in db.reviews : r.card_id = c.id}) = 1
    /\ \A r \in db.reviews : CardExists(db, r.card_id)

-----------------------------------------------------------------------------
(* Calls on pairs that do not exist (CallSpec) *)

(* C9: submitReview on a (tenant, cardId) pair without a reviews row throws *)
(* "Card <id> not found" and changes nothing in the database: no            *)
(* review_history row is added and no reviews row is modified.              *)
C9_ReviewNotFound ==
    [][(last'.op = "submitReview" /\ SelectReview(db, last'.card, last'.user) = {})
          => /\ ~last'.ok
             /\ last'.err = <<"Card", last'.card, "not found">>
             /\ db' = db]_vars

\* a review was refused while the database holds a reviewed card
C9_RefusedReview ==
    /\ last.op = "submitReview" /\ ~last.ok
    /\ last.err = <<"Card", last.card, "not found">>
    /\ SelectReview(db, last.card, last.user) = {}
    /\ db.reviews # {} /\ db.review_history # {}

(* C10: editCard, deleteCard and undoReview called with a (tenant, cardId)  *)
(* pair for which no card exists return false, raise no error and leave    *)
(* every row of cards, tags, reviews and review_history unchanged.          *)
C10_MissingCardReturnsFalse ==
    [][(/\ last'.op \in {"editCard", "deleteCard", "undoReview"}
        /\ SelectCard(db, last'.card, last'.user) = {})
          => /\ ~last'.ok
             /\ last'.err = <<>>
             /\ db' = db]_vars

\* an undo was refused for a card that was deleted together with its snapshot,
\* while another card is stored
C10_RefusedUndoOfDeletedCard ==
    /\ last.op = "undoReview" /\ ~last.ok
    /\ last.card \in DOMAIN made
    /\ made[last.card].by = last.user
    /\ made[last.card].erased >= 3
    /\ ~CardExists(db, last.card)

-----------------------------------------------------------------------------
(* Undo (CardSpec) *)

(* C1: undo round trip.  A successful undoReview that comes right after a   *)
(* successful submitReview of the same card leaves the card's reviews row   *)
(* equal, field by field, to the row the review found.                      *)
C1_UndoRoundTrip ==
    [][(last.op = "submitReview" /\ last.ok /\ last'.follows)
          => FsrsOf(db', last'.card) = last.before]_vars

(* C2: undo is last-in-first-out.  After n successful reviews of a card     *)
(* followed by k <= n successful undos, with any timing of the reviews, the *)
(* card's reviews row is the one the first n-k reviews produced and n-k     *)
(* snapshots of the card remain.                                            *)
C2_UndoLastInFirstOut ==
    \A c \in DOMAIN phase :
        (phase[c] \in {"S", "U"} /\ trail[c] # <<>>) =>
            /\ FsrsOf(db, c) = {trail[c][Len(trail[c])]}
            /\ Cardinality(HistoryOf(db, c)) = Len(trail[c]) - 1

-----------------------------------------------------------------------------
(* Reviews at statement granularity (ConcSpec) *)

(* C3: submitReview's snapshot INSERT and state UPDATE are one unit.  In    *)
(* every state in which no call is between two statements, also after a    *)
(* call ended between the INSERT and the UPDATE, every stored snapshot      *)
(* belongs to a review whose UPDATE ran, and every UPDATE that ran has its  *)
(* snapshot.                                                                *)
C3_SnapshotAndUpdateAtomic ==
    Quiescent =>
        /\ \A h \in db.review_history : h.id \notin pendingSnap
        /\ Cardinality(db.review_history) = Len(fin[1]) + Len(fin[2])

(* C4: concurrent reviews of one card are serialized.  When each of the two *)
(* sessions has completed one submitReview of the card and no call was cut  *)
(* short, the reviews row is the result of applying the two ratings one     *)
(* after the other in some order, and review_history holds two snapshots:   *)
(* the original state and the intermediate state of that order.             *)
C4_ReviewsSerialized ==
    (/\ Quiescent /\ pendingSnap = {}
     /\ Len(fin[1]) = 1 /\ Len(fin[2]) = 1) =>
        LET original == createEmptyCard(0)
            Serial(g, h) ==
                LET intermediate == SchedulerNext(original, now, g)
                IN  /\ FsrsOf(db, 1) = {SchedulerNext(intermediate, now, h)}
                    /\ Cardinality(HistoryOf(db, 1)) = 2
                    /\ {x.fsrs : x \in HistoryOf(db, 1)} = {original, intermediate}
        IN  Serial(fin[1][1], fin[2][1]) \/ Serial(fin[2][1], fin[1][1])

-----------------------------------------------------------------------------
(* Due cards (DueSpec) *)

\* instants, from now on, at which getDueCards may be called on this database
QueryTimes ==
    {t \in {now} \cup UNION {{r.fsrs.due - 1, r.fsrs.due, r.fsrs.due + 1} : r \in db.reviews} :
        t >= now}

Limits == 0..3

DueOf(cardId) == (CHOOSE r \in db.reviews : r.card_id = cardId).fsrs.due

(* C14: getDueCards returns the due cards in ascending order of             *)
(* retrievability: of any two returned cards the earlier one has the lower  *)
(* or equal retrievability.                                                 *)
C14_AscendingRetrievability ==
    \A t \in QueryTimes, T \in TagFilters :
        LET list == getDueCards(db, Tenant, NULL, T, t)
        IN  \A i, j \in DOMAIN list :
                i < j => RetrievabilityOf(db, list[i], t) <= RetrievabilityOf(db, list[j], t)

(* C15: getDueCards truncates after ranking: for every limit k >= 0 it      *)
(* returns the first min(k, n) elements of the list it returns without a    *)
(* limit in the same state.                                                 *)
C15_LimitIsPrefix ==
    \A t \in QueryTimes, T \in TagFilters, k \in Limits :
        LET full == getDueCards(db, Tenant, NULL, T, t)
        IN  getDueCards(db, Tenant, k, T, t) = SubSeq(full, 1, Min(k, Len(full)))

(* C16, as the spec states it: getDueCards without limit returns exactly    *)
(* the tenant's cards whose ScheduleState.due <= now and that satisfy the   *)
(* tag filter.                                                              *)
C16_DueExactly ==
    \A t \in QueryTimes, T \in TagFilters :
        LET list == getDueCards(db, Tenant, NULL, T, t)
        IN  /\ Len(list) = Cardinality(Range(list))
            /\ \A c \in 1..db.seq_cards :
                  c \in Range(list) <=>
                      /\ \E k \in db.cards : k.id = c /\ k.user_id = Tenant
                      /\ \E r \in db.reviews : r.card_id = c /\ r.fsrs.due <= t
                      /\ (T = {} \/ \E g \in TagsOf(db, c) : g.tag \in T)

(* C16, amended: getDueCards without limit returns exactly the tenant's     *)
(* cards that satisfy the tag filter and whose ScheduleState.due, cut to    *)
(* the whole second, is <= now cut to the whole second; a card rescheduled  *)
(* by submitReview is not returned before the second of its due time.       *)
C16_DueExactlyBySecond ==
    \A t \in QueryTimes, T \in TagFilters :
        LET list == getDueCards(db, Tenant, NULL, T, t)
        IN  /\ Len(list) = Cardinality(Range(list))
            /\ \A c \in 1..db.seq_cards :
                  c \in Range(list) <=>
                      /\ \E k \in db.cards : k.id = c /\ k.user_id = Tenant
                      /\ \E r \in db.reviews :
                            r.card_id = c /\ r.fsrs.due \div 2 <= t \div 2
                      /\ (T = {} \/ \E g \in TagsOf(db, c) : g.tag \in T)

\* a reviewed card is due later than now and is not returned now but is at
\* its due time, while a tagged card is returned now
C16_RescheduledCardWaits ==
    \E c, k \in 1..db.seq_cards :
        /\ HistoryOf(db, c) # {} /\ FsrsOf(db, c) # {}
        /\ DueOf(c) > now + 2
        /\ c \notin Range(getDueCards(db, Tenant, NULL, {}, now))
        /\ c \in Range(getDueCards(db, Tenant, NULL, {}, DueOf(c)))
        /\ c \notin Range(getDueCards(db, Tenant, NULL, {}, DueOf(c) - 2))
        /\ k \in Range(getDueCards(db, Tenant, NULL, {"a"}, now))

(* C17: a newly created card starts in phase New with stability,           *)
(* difficulty, elapsed_days, scheduled_days, learning_steps, reps and       *)
(* lapses zero, last_review absent and due equal to the creation time;      *)
(* right after addCard returns getDueCards returns it and due_today counts  *)
(* it.                                                                      *)
C17_NewCardIsDue ==
    [][(/\ Len(made') = Len(made) + 1
        /\ \E tags \in DueTagArgs :
              /\ addCard(db, now, Tenant, "x", tags).ok
              /\ db' = addCard(db, now, Tenant, "x", tags).db)
          => LET id == Len(made')
             IN  /\ FsrsOf(db', id) =
                        {[state |-> New, due |-> now, stability |-> 0, difficulty |-> 0,
                          elapsed_days |-> 0, scheduled_days |-> 0, learning_steps |-> 0,
                          reps |-> 0, lapses |-> 0, last_review |-> NULL]}
                 /\ id \in Range(getDueCards(db', Tenant, NULL, {}, now))
                 /\ getStats(db', Tenant, {}, now).due_today
                        = getStats(db, Tenant, {}, now).due_today + 1]_vars

\* a card created after the clock has advanced is New, due at its creation
\* time and listed, beside a card that was rescheduled and is not
C17_FreshCardListed ==
    \E c, k \in 1..db.seq_cards :
        /\ now > 0
        /\ FsrsOf(db, c) = {createEmptyCard(now)}
        /\ c \in Range(getDueCards(db, Tenant, NULL, {}, now))
        /\ HistoryOf(db, k) # {}
        /\ k \notin Range(getDueCards(db, Tenant, NULL, {}, now))
        /\ getStats(db, Tenant, {}, now).due_today = 1

-----------------------------------------------------------------------------
(* Tags (TagSpec) *)

LabelsOf(d, cardId) == {r.tag : r \in TagsOf(d, cardId)}

HasTagIn(d, cardId, tags) == LabelsOf(d, cardId) \cap tags # {}

NonEmptyTagFilters == TagFilters \ {{}}

(* C18: tag filters have OR semantics everywhere.  For a non-empty filter T  *)
(* getAllCards, searchCards, getDueCards and the due and total counts of     *)
(* getStats take, of what they take without a filter, exactly the cards that *)
(* have at least one tag in T.                                               *)
C18_TagFilterIsOr ==
    \A u \in Users, T \in NonEmptyTagFilters :
        /\ getAllCards(db, u, T) = {c \in getAllCards(db, u, {}) : HasTagIn(db, c, T)}
        /\ \A q \in Queries :
              searchCards(db, u, q, T) = {c \in searchCards(db, u, q, {}) : HasTagIn(db, c, T)}
        /\ \A t \in DueTimes :
              /\ Range(getDueCards(db, u, NULL, T, t))
                     = {c \in Range(getDueCards(db, u, NULL, {}, t)) : HasTagIn(db, c, T)}
              /\ getStats(db, u, T, t).due_today
                     = Cardinality({c \in DueRows(db, u, {}, t) : HasTagIn(db, c, T)})
              /\ getStats(db, u, T, t).total
                     = Cardinality({c \in db.cards : c.user_id = u /\ HasTagIn(db, c.id, T)})

\* a tenant holds a card tagged a and a card tagged b: the filter {a} takes
\* one of them, the filter {a, b} both
C18_OneOfTwoTagged ==
    \E c1, c2 \in getAllCards(db, "alice", {}) :
        /\ LabelsOf(db, c1) = {"a"}
        /\ LabelsOf(db, c2) = {"b"}
        /\ getAllCards(db, "alice", {"a"}) = {c1}
        /\ getAllCards(db, "alice", {"a", "b"}) = {c1, c2}

\* tags arguments of editCard: not provided, one label, a label and a blank,
\* the empty list, the same label twice
TagsEditArgs ==
    {<<"y", NotProvided>>, <<"", <<"b">> >>, <<"y", <<"b", " ">> >>, <<"", <<>> >>,
     <<"", <<" a", "b">> >>, <<"", <<"a", " a">> >>}

TrimmedLabels(tags) == {Trim(tags[i]) : i \in DOMAIN tags} \ {""}

(* C19: editCard with tags provided is a full replace.  When                 *)
(* editCard(cardId, instructions?, T) returns true the card's stored tags    *)
(* are exactly the trimmed, non-empty labels of T, and when tags is not      *)
(* provided the stored tags are unchanged; the tags of other cards are       *)
(* unchanged either way.                                                     *)
C19_EditReplacesTags ==
    \A u \in Users, c \in CardIds, e \in TagsEditArgs :
        LET r == editCard(db, u, c, e[1], e[2])
        IN  r.ok =>
              /\ IF e[2] = NotProvided
                 THEN TagsOf(r.db, c) = TagsOf(db, c)
                 ELSE /\ LabelsOf(r.db, c) = TrimmedLabels(e[2])
                      /\ \A row \in TagsOf(r.db, c) : row.user_id = u
              /\ \A o \in CardIds \ {c} : TagsOf(r.db, o) = TagsOf(db, o)

\* a card created with the tag a carries exactly the tag b
C19_TagReplaced ==
    \E c \in DOMAIN made :
        /\ made[c].erased = NULL
        /\ LabelsOf(db, c) = {"b"}
        /\ \E u \in Users : editCard(db, u, c, "", <<"b", " ">>).ok

-----------------------------------------------------------------------------
(* What undoReview returns (CallSpec) *)

SnapshotsOf(d, userId, cardId) ==
    {h \in d.review_history : h.card_id = cardId /\ h.user_id = userId}

-----------------------------------------------------------------------------
(* Lifetime review count (CardSpec) *)

\* every successful submitReview, and nothing else, draws one review_history id
ReviewsEverMade == db.seq_history

(* C20: total_reviews equals the tenant's lifetime review count: after any   *)
(* sequence of operations getStats().total_reviews is the number of          *)
(* successful submitReview calls the tenant has ever made.                   *)
C20_TotalReviewsIsLifetimeCount ==
    getStats(db, "alice", {}, now).total_reviews = ReviewsEverMade

-----------------------------------------------------------------------------
(* Batch calls (BatchSpec) *)

QueriesOf(items) == [i \in DOMAIN items |-> items[i].query]
ErrorsOf(items) == {items[i].error : i \in DOMAIN items}

\* successful and failed are the input items at the positions in done and at
\* the other positions, each list in input order
SplitAt(input, done, successful, failed) ==
    /\ successful = SubList(input, done)
    /\ failed = SubList(input, DOMAIN input \ done)

Split(input, successful, failed) ==
    \E done \in SUBSET DOMAIN input : SplitAt(input, done, successful, failed)

Held(d, userId, cardId) == SelectCard(d, cardId, userId) # {}

(* C12: batch partial failure.  For each of submitBatchReviews,              *)
(* editCardsInBatch, deleteCardsInBatch, undoReviewsInBatch and              *)
(* searchCardsInBatch and every input list, every input item is in exactly   *)
(* one of successful and failed, both lists are in input order, and the      *)
(* items after a failing item are still carried out: every review of a held  *)
(* card is made, every edit of a held card that supplies instructions is     *)
(* applied, every undo consumes one snapshot, every search with a well       *)
(* formed query returns its cards.  deleteCardsInBatch deletes every id it   *)
(* reports in successful and reports every id the tenant does not hold, or   *)
(* holds no longer, in failed with "Card not found".                         *)
C12_BatchPartialFailure ==
    /\ \A reviews \in ListsOf(ReviewItems({3})) :
          LET r == submitBatchReviews(db, now, Tenant, reviews)
              ids == CardIdsOf(reviews)
          IN  /\ SplitAt(ids, {i \in DOMAIN ids : Held(db, Tenant, ids[i])},
                         CardIdsOf(r.successful), CardIdsOf(r.failed))
              /\ r.db.seq_history = db.seq_history + Len(r.successful)
    /\ \A edits \in ListsOf(EditItems(BatchEditArgs)) :
          LET r == editCardsInBatch(db, Tenant, edits)
              ids == CardIdsOf(edits)
          IN  /\ SplitAt(ids, {i \in DOMAIN ids : /\ Held(db, Tenant, ids[i])
                                                  /\ edits[i].tags = NotProvided},
                         CardIdsOf(r.successful), CardIdsOf(r.failed))
              /\ \A i \in DOMAIN edits :
                    Held(db, Tenant, ids[i]) /\ edits[i].instructions # "" =>
                        \E c \in r.db.cards :
                            c.id = ids[i] /\ c.instructions = edits[i].instructions
    /\ \A cardIds \in ListsOf(CardIds) :
          LET r == deleteCardsInBatch(db, Tenant, cardIds)
              held == {i \in DOMAIN cardIds : Held(db, Tenant, cardIds[i])}
          IN  /\ SplitAt(cardIds, FirstOf(cardIds, held),
                         CardIdsOf(r.successful), CardIdsOf(r.failed))
              /\ \A i \in DOMAIN cardIds :
                    /\ ~Held(r.db, Tenant, cardIds[i])
                    /\ RowsOf(r.db, cardIds[i]) = 0
              /\ ErrorsOf(r.failed) \subseteq {<<"Card not found">>}
              /\ r.db.cards = {c \in db.cards : c.id \notin Range(cardIds)}
    /\ \A cardIds \in ListsOf(CardIds) :
          \A r \in undoReviewsInBatch(db, Tenant, cardIds) :
              /\ Split(cardIds, CardIdsOf(r.successful), CardIdsOf(r.failed))
              /\ Cardinality(r.db.review_history)
                     = Cardinality(db.review_history) - Len(r.successful)
              /\ \A c \in Range(CardIdsOf(r.failed)) : SnapshotsOf(r.db, Tenant, c) = {}
              /\ ErrorsOf(r.failed) \subseteq {<<"No review history found">>}
    /\ \A searches \in ListsOf(SearchItems(BatchQueries)) :
          LET r == searchCardsInBatch(db, Tenant, searches)
              queries == QueriesOf(searches)
          IN  /\ SplitAt(queries, {i \in DOMAIN queries : ~Malformed(queries[i])},
                         QueriesOf(r.successful), QueriesOf(r.failed))
              /\ \A i \in DOMAIN r.successful :
                    r.successful[i].cards
                        = searchCards(db, Tenant, r.successful[i].query, {})
              /\ r.db = db

\* a deleteCardsInBatch call returned ids in successful and ids in failed and
\* the tenant holds no card any more
C12_SomeDeletedSomeNotFound ==
    /\ batch = [op |-> "deleteCardsInBatch", partial |-> TRUE]
    /\ db.seq_cards > 0
    /\ db.cards = {}

\* submitReview(c1, r1), ..., submitReview(cn, rn) called one at a time, a
\* call that throws leaving the database as it found it
RECURSIVE OneAtATime(_, _, _, _)
OneAtATime(d, t, userId, reviews) ==
    IF reviews = <<>> THEN d
    ELSE LET r == submitReview(d, t, userId, Head(reviews).card_id, Head(reviews).rating)
         IN  OneAtATime(IF r.ok THEN r.db ELSE d, t, userId, Tail(reviews))

-----------------------------------------------------------------------------
(* Streaks (StreakSpec) *)

\* the tenant has a snapshot created on that calendar day
ActiveOn(userId, day) == day \in ReviewDates(db, userId)

\* the days of the run of active days that ends at day
RunEndingAt(userId, day) ==
    {x \in 0..day : \A y \in x..day : ActiveOn(userId, y)}

Today == DayOf(now)

(* C21: current_streak is the number of consecutive calendar days with at    *)
(* least one snapshot of the tenant, counted backward from today if today    *)
(* has a snapshot, otherwise from yesterday if yesterday has one, up to the  *)
(* first day without a snapshot; it is 0 when neither today nor yesterday    *)
(* has a snapshot.                                                           *)
C21_CurrentStreak ==
    \A u \in Users :
        getStats(db, u, {}, now).current_streak
            = IF ActiveOn(u, Today) THEN Cardinality(RunEndingAt(u, Today))
              ELSE IF ActiveOn(u, Today - 1) THEN Cardinality(RunEndingAt(u, Today - 1))
              ELSE 0

\* a tenant with snapshots on the two days before today and none today
C21_StreakCountedFromYesterday ==
    /\ Today >= 3
    /\ ReviewDates(db, "alice") = {Today - 2, Today - 1}
    /\ ReviewDates(db, "bob") = {Today}
    /\ getStats(db, "alice", {}, now).current_streak = 2

\* the tenant's only snapshots were created on the two days before day
OnlyTwoDaysBefore(userId, day) == ReviewDates(db, userId) = {day - 2, day - 1}

(* C22, as the spec states it: a tenant whose only snapshots were created on *)
(* days D-2 and D-1 has current_streak 0 when getStats is evaluated on day D *)
(* and current_streak 2 when it is evaluated on day D-1.                     *)
C22_StreakBoundary ==
    \A u \in Users :
        Today >= 2 /\ OnlyTwoDaysBefore(u, Today) =>
            /\ getStats(db, u, {}, now).current_streak = 0
            /\ getStats(db, u, {}, now - Day).current_streak = 2

(* C22, amended: a tenant whose only snapshots were created on days D-2 and  *)
(* D-1 has current_streak 2 when getStats is evaluated on day D-1 and still  *)
(* on day D, and current_streak 0 when it is evaluated on day D+1.           *)
C22_StreakBoundaryDayLater ==
    \A u \in Users :
        Today >= 2 /\ OnlyTwoDaysBefore(u, Today) =>
            /\ getStats(db, u, {}, now - Day).current_streak = 2
            /\ getStats(db, u, {}, now).current_streak = 2
            /\ getStats(db, u, {}, now + Day).current_streak = 0

\* day D with snapshots of the tenant on D-2 and D-1 only
C22_TwoDaysThenNone ==
    /\ Today >= 2
    /\ OnlyTwoDaysBefore("alice", Today)
    /\ getStats(db, "alice", {}, now).total_reviews = 2

(* C23: longest_streak is the greatest length of a run of consecutive        *)
(* calendar days each with at least one snapshot of the tenant, over all     *)
(* stored snapshots, and 0 when the tenant has no snapshot.                  *)
C23_LongestStreak ==
    \A u \in Users :
        LET lengths == {Cardinality(RunEndingAt(u, day)) : day \in ReviewDates(db, u)}
        IN  getStats(db, u, {}, now).longest_streak
                = IF lengths = {} THEN 0
                  ELSE CHOOSE n \in lengths : \A m \in lengths : m <= n

\* a run of two active days, a gap, and a later single active day
C23_LongerRunInThePast ==
    /\ ReviewDates(db, "alice") = {0, 1, 3}
    /\ getStats(db, "alice", {}, now).longest_streak = 2

-----------------------------------------------------------------------------
(* Statistics by tag (TagSpec) *)

\* the tenant's cards that carry the label
CardsCarrying(userId, label) ==
    {c.id : c \in {c \in db.cards : c.user_id = userId /\ label \in LabelsOf(db, c.id)}}

\* those of them whose schedule state is due at t
DueCarrying(userId, label, t) ==
    {c \in CardsCarrying(userId, label) : \E f \in FsrsOf(db, c) : f.due <= t}

(* C24: getStats returns by_tag if and only if the tag filter is empty.  For *)
(* each label carried by a card of the tenant, and for no other label, it    *)
(* gives as total the number of the tenant's distinct cards carrying the     *)
(* label and as due the number of those cards with due <= now, so that due   *)
(* <= total.                                                                 *)
C24_ByTagOverview ==
    \A u \in Users, t \in DueTimes :
        /\ \A T \in NonEmptyTagFilters : getStats(db, u, T, t).by_tag = {}
        /\ \E by_tag \in getStats(db, u, {}, t).by_tag :
              /\ DOMAIN by_tag = {label \in {"a", "b"} : CardsCarrying(u, label) # {}}
              /\ \A label \in DOMAIN by_tag :
                    /\ by_tag[label].total = Cardinality(CardsCarrying(u, label))
                    /\ by_tag[label].due = Cardinality(DueCarrying(u, label, t))
                    /\ by_tag[label].due <= by_tag[label].total

-----------------------------------------------------------------------------
(* C25 *)

SameReviewRows(d, e) == d.reviews = e.reviews /\ d.review_history = e.review_history

\* C25: a review whose rating is not one of the grades 1, 2, 3, 4 (a number
\* between two grades included), sent through review_card in single or batch
\* mode or through POST /api/review, is answered with an error and leaves the
\* rows of reviews and review_history as they were.
C25_InvalidRatingsNeverTouchStorage ==
    \A c \in CardIds, rating \in {x \in RatingArgs : ~IsGrade(x)} :
        /\ \A r \in postReview(db, now, Tenant, c, rating) \cup reviewCard(db, now, Tenant, c, rating) :
              ~r.ok /\ SameReviewRows(r.db, db)
        /\ \A r \in reviewCards(db, now, Tenant, <<[card_id |-> c, rating |-> rating]>>) :
              r.successful = <<>> /\ SameReviewRows(r.db, db)

-----------------------------------------------------------------------------
(* C26 *)

\* the schedule state the reviews row of the card holds
ScheduleOf(d, cardId) == (CHOOSE r \in d.reviews : r.card_id = cardId).fsrs

Again == 1
Hard == 2
Good == 3
Easy == 4

\* the times of a later call: at once, a moment later, a day later
Later(t) == {t, t + 1, t + Day}

\* the cards of the tenant that hold a freshly created schedule state
FreshCards(d, userId) ==
    {c.id : c \in {c \in d.cards : /\ c.user_id = userId
                                   /\ SelectReview(d, c.id, userId) # {}
                                   /\ ScheduleOf(d, c.id).state = New}}

-----------------------------------------------------------------------------
(* C27 *)

\* the cards of the tenant that hold a reviews row
ScheduledCards(d, userId) ==
    {c.id : c \in {c \in d.cards : c.user_id = userId /\ SelectReview(d, c.id, userId) # {}}}

-----------------------------------------------------------------------------
(* C28 *)

\* C28: for every phase and rating, the interval submitReview returns is the
\* whole number of days nearest to (new due - now), halves rounded up, and is
\* never negative; the due time the review persists is never earlier than
\* the review time.
C28_IntervalIsRoundedDaysToDue ==
    \A c \in ScheduledCards(db, "alice"), g \in Grades :
        LET r == submitReview(db, now, "alice", c, g)
            due == ScheduleOf(r.db, c).due
        IN  /\ r.ok
            /\ r.interval >= 0
            /\ due >= now
            /\ 2 * r.interval * Day <= 2 * (due - now) + Day
            /\ 2 * (due - now) + Day < 2 * (r.interval + 1) * Day

\* reviewed cards wait minutes (interval 0) and wait days (interval >= 1)
C28_ReviewedWithShortAndLongInterval ==
    \E c \in DOMAIN trail :
        /\ phase[c] = "S" /\ Len(trail[c]) >= 3
        /\ FsrsOf(db, c) = {trail[c][Len(trail[c])]}
        /\ \E i \in 2..Len(trail[c]) :
              /\ trail[c][i].due > trail[c][i].last_review
              /\ IntervalDays(trail[c][i].due, trail[c][i].last_review) = 0
        /\ \E i \in 2..Len(trail[c]) :
              IntervalDays(trail[c][i].due, trail[c][i].last_review) >= 1

-----------------------------------------------------------------------------
(* C29 *)

\* C29: for every card that holds a schedule state, in whatever phase the
\* reviews and undos have left it, and every rating Again, Hard, Good, Easy,
\* submitReview returns a result without an error and leaves the card in
\* Learning, Reviewing or Relearning, never in New.
C29_SchedulerStepIsTotal ==
    \A c \in ScheduledCards(db, "alice"), g \in Grades :
        LET r == submitReview(db, now, "alice", c, g)
        IN  /\ r.ok /\ r.err = <<>>
            /\ ScheduleOf(db, c).state \in {New, Learning, Review, Relearning}
            /\ ScheduleOf(r.db, c).state \in {Learning, Review, Relearning}

\* a card that an undo had taken back has been reviewed again, the last time
\* out of Reviewing
C29_RestoredCardReviewed ==
    /\ last.op = "submitReview" /\ last.ok
    /\ \E f \in last.before : f.state = Review /\ f.lapses = 0
    /\ phase[last.card] = "X"
    /\ \E h \in HistoryOf(db, last.card) : h.fsrs.state = Review
    /\ ScheduleOf(db, last.card).state \in {Learning, Review, Relearning}

-----------------------------------------------------------------------------
(* C30 *)

\* C30: for a card in phase Reviewing, at one review time and from one
\* state, the interval submitReview returns for Easy is at least the one for
\* Good, which is at least the one for Hard, and the interval for Again is
\* not larger than the interval the card was last scheduled with.
C30_IntervalMonotonicity ==
    \A c \in ScheduledCards(db, "alice") :
        ScheduleOf(db, c).state = Review =>
            LET interval(g) == submitReview(db, now, "alice", c, g).interval
            IN  /\ interval(Easy) >= interval(Good)
                /\ interval(Good) >= interval(Hard)
                /\ interval(Again) <= ScheduleOf(db, c).scheduled_days

\* a card in Reviewing has been rated Easy and waits longer than before
C30_ReviewingCardRatedEasy ==
    /\ last.op = "submitReview" /\ last.ok
    /\ \E f \in last.before :
          /\ f.state = Review
          /\ ScheduleOf(db, last.card) = SchedulerNext(f, ScheduleOf(db, last.card).last_review, Easy)
          /\ ScheduleOf(db, last.card).scheduled_days > f.scheduled_days

-----------------------------------------------------------------------------
(* C31 *)

\* Google's userinfo endpoint resolved the token to the verified email
GoogleResolved(authHeader, email) ==
    /\ authHeader.scheme = "Bearer "
    /\ Userinfo(authHeader.token).ok
    /\ Userinfo(authHeader.token).verified_email
    /\ Userinfo(authHeader.token).email = email

Authentic(authHeader) == \E email \in Users : GoogleResolved(authHeader, email)

\* the answers of the three routes to a request carrying the header
ApiResponses(authHeader) ==
    {apiDueCards(db, now, authHeader, NULL, {}), apiStats(db, now, authHeader)}
        \cup UNION {apiReview(db, now, authHeader, c, 30) : c \in CardIds}

\* C31: a request to /api/due-cards, /api/review or /api/stats that reads or
\* changes the data of tenant E carried a bearer token that Google's userinfo
\* endpoint resolved to the verified email E; any other request is answered
\* 401 and touches no storage.
C31_TenantCannotBeForged ==
    \A h \in AuthHeaders : \A r \in ApiResponses(h) :
        /\ r.tenant # "" => GoogleResolved(h, r.tenant)
        /\ ~Authentic(h) => r.status = 401 /\ r.tenant = "" /\ r.db = db

-----------------------------------------------------------------------------
(* C32 *)

\* the rows of reviews and review_history that name another card than cardId
ScheduleRowsBeside(d, cardId) ==
    [reviews |-> {r \in d.reviews : r.card_id # cardId},
     review_history |-> {h \in d.review_history : h.card_id # cardId}]

\* the call left the instructions and tags of every card as they were
KeepsCards(d, e) == d.cards = e.cards /\ d.cards_fts = e.cards_fts /\ d.tags = e.tags

\* the call left every reviews row and every snapshot that existed as it was
KeepsSchedule(d, e) == d.reviews \subseteq e.reviews /\ d.review_history = e.review_history

\* C32: addCard and editCard leave every existing ScheduleState row and every
\* snapshot unchanged (the listings and getStats only read); submitReview and
\* undoReview on card X leave the instructions and tags of X and the
\* ScheduleState rows and snapshots of every other card unchanged.
C32_OnlyReviewAndUndoChangeSchedule ==
    \A u \in Users :
        /\ \A t \in TagArgs : KeepsSchedule(db, addCard(db, now, u, "x", t).db)
        /\ \A c \in CardIds :
              /\ \A e \in AnyEditArgs :
                    /\ KeepsSchedule(db, editCard(db, u, c, e[1], e[2]).db)
                    /\ db.reviews = editCard(db, u, c, e[1], e[2]).db.reviews
              /\ \A g \in Grades :
                    /\ KeepsCards(db, submitReview(db, now, u, c, g).db)
                    /\ ScheduleRowsBeside(db, c)
                           = ScheduleRowsBeside(submitReview(db, now, u, c, g).db, c)
              /\ \A r \in undoReview(db, u, c) :
                    /\ KeepsCards(db, r.db)
                    /\ ScheduleRowsBeside(db, c) = ScheduleRowsBeside(r.db, c)

\* one card of a tenant has been reviewed and carries a tag while another
\* card of the same tenant still holds the state it was created with
C32_ReviewedBesideUntouched ==
    \E x \in db.reviews, y \in db.reviews :
        /\ x.card_id # y.card_id /\ x.user_id = y.user_id
        /\ x.fsrs.reps = 1 /\ HistoryOf(db, x.card_id) # {} /\ TagsOf(db, x.card_id) # {}
        /\ y.fsrs.state = New /\ HistoryOf(db, y.card_id) = {}

-----------------------------------------------------------------------------
(* C33 *)

\* C33: after any sequence of addCard, submitReview, undoReview, editCard
\* and deleteCard calls, the reps of each card equals the number of
\* snapshots stored for it, and the reps held in those snapshots are exactly
\* 0, 1, ..., reps - 1.
C33_RepsCountsSnapshots ==
    \A r \in db.reviews :
        /\ r.fsrs.reps = Cardinality(HistoryOf(db, r.card_id))
        /\ {h.fsrs.reps : h \in HistoryOf(db, r.card_id)} = 0..(r.fsrs.reps - 1)

-----------------------------------------------------------------------------
(* C34 *)

\* the snapshots the undoReview executions restored, one entry per UPDATE
Restored == fin[1] \o fin[2]

\* snapshots inserted and no longer stored
Removed == db.seq_history - Cardinality(db.review_history)

\* C34: when undoReview calls for one card interleave statement by statement,
\* or a call stops between its UPDATE and its DELETE, the executions that
\* restored a state are as many as the snapshots removed, and no snapshot is
\* restored twice.
C34_EachUndoConsumesItsSnapshot ==
    (\A s \in Sessions : pc[s] = "idle") =>
        /\ Len(Restored) = Removed
        /\ \A i, j \in DOMAIN Restored : i # j => Restored[i] # Restored[j]

-----------------------------------------------------------------------------
(* C35 *)

\* session s returns a result from submitReview in this step
SubmitReturns(s) == pc[s] = "update" /\ pc'[s] = "idle" /\ Len(fin'[s]) = Len(fin[s]) + 1

\* C35: whenever submitReview returns a result, also when deleteCard or
\* undoReview on the same card came in between its statements, the card
\* exists afterwards, its stored due date is the returned next review date,
\* and one snapshot holds the state the review was computed from.
C35_SuccessMeansPersisted ==
    [][\A s \in Sessions :
           SubmitReturns(s) =>
               /\ CardExists(db', local[s].card)
               /\ \E r \in db'.reviews :
                     /\ r.card_id = local[s].card
                     /\ DayOf(r.fsrs.due)
                            = DayOf(SchedulerNext(local[s].review, now, local[s].rating).due)
               /\ \E h \in db'.review_history :
                     h.id = local[s].snap /\ h.fsrs = local[s].review]_vars

-----------------------------------------------------------------------------
(* C36 *)

\* C36: when editCard raises an error part-way (the tag batch fails because
\* two labels of the new list trim to the same label), the instructions and
\* the tags of the card are as they were before the call.
C36_EditIsAllOrNothing ==
    \A u \in Users, c \in CardIds, e \in AnyEditArgs :
        LET r == editCard(db, u, c, e[1], e[2])
        IN  r.err # <<>> => KeepsCards(db, r.db)

-----------------------------------------------------------------------------
(* C37 *)

\* C37: in every reachable state, also after an addCard or editCard call
\* that failed part-way, and for every tag filter, getStats(tags).total is
\* the number of cards getAllCards(tags) returns and getStats(tags).due_today
\* the number of cards getDueCards(undefined, tags) returns at that instant.
C37_CountsAgreeWithListings ==
    \A u \in Users, T \in TagFilters, t \in DueTimes :
        /\ getStats(db, u, T, t).total = Cardinality(getAllCards(db, u, T))
        /\ getStats(db, u, T, t).due_today = Len(getDueCards(db, u, NULL, T, t))

-----------------------------------------------------------------------------
(* C38 *)

\* C38: in every result of getStats longest_streak >= current_streak, also
\* when a submitReview or an undoReview of the tenant comes in between the
\* parallel queries of getStats.
C38_LongestAtLeastCurrent ==
    /\ \A u \in Users :
          getStats(db, u, {}, now).longest_streak >= getStats(db, u, {}, now).current_streak
    /\ reading.running /\ reading.current # NULL /\ reading.longest # NULL
          => reading.longest >= reading.current

-----------------------------------------------------------------------------
(* C39 *)

\* the row names a card that exists and belongs to the row's user_id
OwnedByItsCard(d, row) ==
    \E c \in d.cards : c.id = row.card_id /\ c.user_id = row.user_id

\* C39: in every reachable state each tags row, each reviews row and each
\* snapshot carries the user_id of the card it refers to, and every snapshot
\* refers to a card that still exists.
C39_OwnershipConsistent ==
    /\ \A t \in db.tags : OwnedByItsCard(db, t)
    /\ \A r \in db.reviews : OwnedByItsCard(db, r)
    /\ \A h \in db.review_history : OwnedByItsCard(db, h)

\* a reviewed card has been deleted, and the other tenant holds a card with
\* a tag, a schedule state and a snapshot
C39_DeletedBesideOwned ==
    \E c \in DOMAIN made :
        /\ made[c].erased # NULL /\ made[c].erased >= 2
        /\ \E k \in db.cards :
              /\ k.user_id # made[c].by
              /\ TagsOf(db, k.id) # {} /\ FsrsOf(db, k.id) # {} /\ HistoryOf(db, k.id) # {}

====
